---- MODULE Spec2Model ----
(***************************************************************************)
(* golibjpegturbo: cgo bindings to libjpeg-turbo.                          *)
(*                                                                         *)
(* The model follows decode.go, encode.go, jpeg_common.c and goPanic one   *)
(* native call at a time.  A call of DecodeData, Decode, GetJpegInfo or    *)
(* Encode is a record: its position (pc), its stack of deferred calls, the *)
(* panic in flight, its results, and a log of every native-heap and        *)
(* native-library event in the order the call makes them.  The native      *)
(* library is outside the repository: each of its routines that can reach  *)
(* error_exit either returns or invokes the installed callback, chosen     *)
(* nondeterministically.                                                    *)
(*                                                                         *)
(* Further specifications follow single parts at a finer grain: the CMYK   *)
(* pixel loop, Encode's row loops on a sub-image view and on an image of   *)
(* any other type, the stress-test harness with its workers, mutex,        *)
(* counters and per-image baseline, and two calls interleaved over one     *)
(* native heap.                                                            *)
(***************************************************************************)
EXTENDS Integers, Sequences, FiniteSets, TLC

\* the calls of DecodeData, Decode, GetJpegInfo and Encode in progress
VARIABLES call

\* the stress-test harness (stress_test/main.go): the mutex mu, the corpus
\* `images`, the image main sends next and the number it has sent, the
\* counter nEncoded, each worker's locals, and the native heap the workers'
\* calls allocate from
VARIABLES mu, images, sendIndex, nSent, nEncoded, worker, heap

\* the counter nTotalEncodedSize and the position of main's goroutine;
\* `passed` counts the iterations that passed both checks and sums their
\* encoded lengths, `returned` lists the values atomic.AddInt32 returned
VARIABLES nTotalEncodedSize, main, passed, returned

harnessVars ==
  <<mu, images, sendIndex, nSent, nEncoded, worker, heap,
    nTotalEncodedSize, main, passed, returned>>

vars ==
  <<call, mu, images, sendIndex, nSent, nEncoded, worker, heap,
    nTotalEncodedSize, main, passed, returned>>

(* ------------------------------ bounds -------------------------------- *)

\* largest output_width / bounds width of an image
MaxWidth == 2
\* largest output_height / bounds height of an image
MaxHeight == 2
\* largest num_components a header reports
MaxComponents == 5
\* largest width and height of a decoded image of which views are encoded
MaxParentWidth == 4
MaxParentHeight == 4
\* the images of the harness's corpus, the rows of each, and the images
\* main sends before the harness is stopped
NumImages == 2
HarnessRows == 2
MaxSends == 4

(* -------------------------- program constants ------------------------- *)

DefaultQuality == 75

\* the values jpeg_read_header can return
HeaderResults == {"JPEG_SUSPENDED", "JPEG_HEADER_OK", "JPEG_HEADER_TABLES_ONLY"}

\* what a native routine that can reach error_exit does
Outcomes == {"ok", "fatal"}

(* ------------------------------ values -------------------------------- *)

NoPanic == [kind |-> "none", msg |-> ""]
NilErr == [kind |-> "nil", msg |-> ""]
NilImg == [kind |-> "nil", dx |-> 0, dy |-> 0, rows |-> {}, via |-> ""]
NilInfo == [set |-> FALSE, Components |-> 0, ColorSpace |-> "", Width |-> 0, Height |-> 0]
NilOptions == [set |-> FALSE, Quality |-> 0]

\* the pixel storage image.NewGray / image.NewRGBA give: no row filled yet
NewImage(kind, dx, dy, via) ==
  [kind |-> kind, dx |-> dx, dy |-> dy, rows |-> {}, via |-> via]

\* the jpeg_color_space values a header of n components can carry
\* (decode.go's table of valid combinations); other counts are JCS_UNKNOWN
HeaderColorSpaces(n) ==
  CASE n = 1 -> {"JCS_GRAYSCALE"}
    [] n = 3 -> {"JCS_RGB", "JCS_YCbCr"}
    [] n = 4 -> {"JCS_CMYK", "JCS_YCCK"}
    [] OTHER -> {"JCS_UNKNOWN"}

IdleCall ==
  [op |-> "idle", pc |-> "idle", defers |-> <<>>, panic |-> NoPanic,
   log |-> <<>>, cbMsgs |-> <<>>,
   dLen |-> 0, res |-> "", nComp |-> 0, jpegColorSpace |-> "",
   imageWidth |-> 0, imageHeight |-> 0, width |-> 0, height |-> 0,
   outColorSpace |-> "", y |-> 0, limg |-> NilImg,
   img |-> NilImg, info |-> NilInfo, err |-> NilErr,
   kind |-> "", dx |-> 0, dy |-> 0, o |-> NilOptions, quality |-> 0,
   nBytes |-> 0, inputComponents |-> 0, inColorSpace |-> "",
   wrote |-> <<>>,
   buf |-> <<>>, pix |-> <<>>, stride |-> 0, x |-> 0, srcOff |-> 0, off |-> 0,
   rect |-> [minX |-> 0, minY |-> 0, maxX |-> 0, maxY |-> 0],
   parentW |-> 0, parentH |-> 0, viewOff |-> 0, pixLen |-> 0, reads |-> {},
   dstOff |-> 0, handed |-> <<>>, queries |-> {},
   ptrs |-> [cinfo |-> 0, err |-> 0, memHelper |-> 0, bufBytes |-> 0],
   raised |-> "", buffer |-> ""]

(* ------------------------------ helpers ------------------------------- *)

\* one event of the call, <<routine, argument, row, count>>: a native-heap
\* or native-library call with the arguments the model keeps of it
Log(c, name, arg, row, n) == [c EXCEPT !.log = Append(@, <<name, arg, row, n>>)]

Defer(c, d) == [c EXCEPT !.defers = Append(@, d)]

\* a return statement: the deferred calls run next
Return(c) == [c EXCEPT !.pc = "unwind"]

\* a Go panic with value v: the deferred calls run next, panicking
GoPanicValue(c, v) == [c EXCEPT !.panic = v, !.pc = "unwind"]

\* part_001 goPanic: panic(C.GoString(msg)), a panic whose value is a string
goPanic(c, msg) == GoPanicValue(c, [kind |-> "string", msg |-> msg])

\* an error_panic that hands goPanic an empty buffer, not the formatted message
error_panic_NoMessage(c, routine) ==
  goPanic([c EXCEPT !.cbMsgs = Append(@, routine)], "")

\* jpeg_common.c error_panic: format the library's message, hand it to
\* goPanic.  The message the library formats names the routine that raised.
error_panic(c, routine) ==
  goPanic([c EXCEPT !.cbMsgs = Append(@, routine)], routine)

\* a call of a native routine that can reach cinfo->err->error_exit: `ok` is
\* the call's state when the routine returns, `raised` the state in which the
\* routine invokes the callback
Native(routine, out, ok, raised) ==
  IF out = "ok" THEN ok ELSE error_panic(raised, routine)

\* the error the deferred recover closure stores for panic value r:
\* err, ok = r.(error); if !ok { err = fmt.Errorf("JPEG error: %v", r) }
RecoveredError(r) ==
  IF r.kind = "runtime" THEN [kind |-> "runtime", msg |-> r.msg]
  ELSE [kind |-> "jpeg", msg |-> r.msg]

\* a recover closure that stores the error and forgets to drop the result
recoverHandler_KeepsResult(c) ==
  IF c.panic.kind = "none" THEN c
  ELSE [c EXCEPT !.err = RecoveredError(c.panic), !.panic = NoPanic]

\* the deferred closure of DecodeData, GetJpegInfo and Encode
recoverHandler(c) ==
  IF c.panic.kind = "none" THEN c
  ELSE CASE c.op \in {"DecodeData", "Decode"} ->
              [c EXCEPT !.img = NilImg, !.err = RecoveredError(c.panic),
                        !.panic = NoPanic]
         [] c.op = "GetJpegInfo" ->
              [c EXCEPT !.info = NilInfo, !.err = RecoveredError(c.panic),
                        !.panic = NoPanic]
         [] OTHER ->
              [c EXCEPT !.err = RecoveredError(c.panic), !.panic = NoPanic]

Top(c) == c.defers[Len(c.defers)]
Pop(c) == [c EXCEPT !.defers = SubSeq(@, 1, Len(@) - 1)]

(* ------------------------- DecodeData, Decode -------------------------- *)

\* decode.go 263-282 and 116-134: the deferred recover closure, the two
\* mallocs with their deferred frees, jpeg_std_error, error_exit
decompressSetup(c) ==
  LET c1 == Defer(c, "recover")
      c2 == Defer(Log(c1, "malloc", "cinfo", 0, 0), "free_cinfo")
      c3 == Defer(Log(c2, "malloc", "cinfo.err", 0, 0), "free_cinfo.err")
      c4 == Log(c3, "jpeg_std_error", "", 0, 0)
  IN  [c4 EXCEPT !.pc = "jpeg_CreateDecompress"]

DecodeData(p) ==
  LET c == call[p] IN
  /\ c.pc = "idle"
  /\ \E n \in 0..1 :
       call' = [call EXCEPT ![p] =
                  decompressSetup([c EXCEPT !.op = "DecodeData", !.dLen = n])]
  /\ UNCHANGED harnessVars

\* Decode: ioutil.ReadAll, then DecodeData
Decode(p) ==
  LET c == call[p] IN
  /\ c.pc = "idle"
  /\ \E readErr \in BOOLEAN, n \in 0..1 :
       /\ readErr => n = 0
       /\ call' = [call EXCEPT ![p] =
                     IF readErr
                     THEN [c EXCEPT !.op = "Decode", !.pc = "done",
                                    !.err = [kind |-> "read", msg |-> "ReadAll"]]
                     ELSE decompressSetup([c EXCEPT !.op = "Decode", !.dLen = n])]
  /\ UNCHANGED harnessVars

GetJpegInfo(p) ==
  LET c == call[p] IN
  /\ c.pc = "idle"
  /\ \E n \in 0..1 :
       call' = [call EXCEPT ![p] =
                  decompressSetup([c EXCEPT !.op = "GetJpegInfo", !.dLen = n])]
  /\ UNCHANGED harnessVars

\* jpeg_CreateDecompress without the deferred jpeg_destroy_decompress
jpeg_CreateDecompress_NoDeferredDestroy(p) ==
  LET c == call[p]
      called == Log(c, "jpeg_CreateDecompress", "", 0, 0)
  IN
  /\ c.pc = "jpeg_CreateDecompress"
  /\ \E out \in Outcomes :
       call' = [call EXCEPT ![p] =
                  Native("jpeg_CreateDecompress", out,
                         [called EXCEPT !.pc = "jpeg_mem_src"], called)]
  /\ UNCHANGED harnessVars

\* decode.go 284-285, 136-137
jpeg_CreateDecompress(p) ==
  LET c == call[p]
      called == Log(c, "jpeg_CreateDecompress", "", 0, 0)
  IN
  /\ c.pc = "jpeg_CreateDecompress"
  /\ \E out \in Outcomes :
       call' = [call EXCEPT ![p] =
                  Native("jpeg_CreateDecompress", out,
                         [Defer(called, "jpeg_destroy_decompress")
                            EXCEPT !.pc = "jpeg_mem_src"],
                         called)]
  /\ UNCHANGED harnessVars

\* decode.go 288, 140: &d[0] is evaluated first and panics with a runtime
\* error (an error value) on an empty slice
jpeg_mem_src(p) ==
  LET c == call[p]
      called == Log(c, "jpeg_mem_src", "", 0, c.dLen)
  IN
  /\ c.pc = "jpeg_mem_src"
  /\ \E out \in Outcomes :
       /\ c.dLen = 0 => out = "ok"
       /\ call' = [call EXCEPT ![p] =
                     IF c.dLen = 0
                     THEN GoPanicValue(c, [kind |-> "runtime",
                                           msg |-> "index out of range"])
                     ELSE Native("jpeg_mem_src", out,
                                 [called EXCEPT !.pc = "jpeg_read_header"],
                                 called)]
  /\ UNCHANGED harnessVars

\* decode.go 290-296 and 142-153.  The header read fills image_width and
\* image_height; output_width and output_height (c.width, c.height), which
\* GetJpegInfo copies, keep the zero jpeg_CreateDecompress left in them until
\* jpeg_start_decompress computes them.
headerRead(c, res, n, cs, w, h) ==
  LET c1 == [c EXCEPT !.res = res, !.nComp = n, !.jpegColorSpace = cs,
                      !.imageWidth = w, !.imageHeight = h]
      failed == [kind |-> "header", msg |-> "jpeg_read_header"]
  IN  IF res # "JPEG_HEADER_OK"
      THEN Return([c1 EXCEPT !.err = failed])
      ELSE IF c.op = "GetJpegInfo"
           THEN Return([c1 EXCEPT !.info =
                          [set |-> TRUE, Components |-> n,
                           ColorSpace |-> cs,
                           Width |-> c.width, Height |-> c.height]])
           ELSE [c1 EXCEPT !.pc = "jpeg_start_decompress"]

\* the header's fields are read only when the status is JPEG_HEADER_OK, so
\* one value of them stands for the other outcomes
jpeg_read_header(p) ==
  LET c == call[p]
      called == Log(c, "jpeg_read_header", "", 0, 0)
  IN
  /\ c.pc = "jpeg_read_header"
  /\ \E out \in Outcomes, res \in HeaderResults, n \in 1..MaxComponents,
        w \in 1..MaxWidth, h \in 1..MaxHeight :
       \E cs \in HeaderColorSpaces(n) :
         /\ (out = "fatal" \/ res # "JPEG_HEADER_OK")
              => (n = 1 /\ w = 1 /\ h = 1)
         /\ (out = "fatal") => res = "JPEG_HEADER_OK"
         /\ call' = [call EXCEPT ![p] =
                       Native("jpeg_read_header", out,
                              headerRead(called, res, n, cs, w, h), called)]
  /\ UNCHANGED harnessVars

\* a scratch row of 3 bytes per pixel where the destination has 4
decodeBegin_ThreeBytesPerPixel(c, kind, bpp, via) ==
  [Log(c, "malloc", "bufBytes", 0, c.width * (IF bpp = 4 THEN 3 ELSE bpp))
     EXCEPT !.limg = NewImage(kind, c.width, c.height, via),
            !.nBytes = c.width * (IF bpp = 4 THEN 3 ELSE bpp), !.y = 0,
            !.pc = "jpeg_read_scanlines"]

\* decodeToGray / decodeToRgba / decodeCmykToRgba up to the row loop:
\* image.NewGray or image.NewRGBA, C.malloc(nBytes)
decodeBegin(c, kind, bpp, via) ==
  [Log(c, "malloc", "bufBytes", 0, c.width * bpp)
     EXCEPT !.limg = NewImage(kind, c.width, c.height, via),
            !.nBytes = c.width * bpp, !.y = 0,
            !.pc = "jpeg_read_scanlines"]

\* decode.go 308-319: defer jpeg_finish_decompress, then the strategy chosen
\* from the component count
decodeDispatch(c) ==
  LET c1 == Defer(c, "jpeg_finish_decompress")
  IN  CASE c.nComp = 1 -> decodeBegin(c1, "Gray", 1, "decodeToGray")
        [] c.nComp = 3 -> decodeBegin(c1, "RGBA", 4, "decodeToRgba")
        [] c.nComp = 4 -> decodeBegin(c1, "RGBA", 4, "decodeCmykToRgba")
        [] OTHER -> Return([c1 EXCEPT !.err =
                              [kind |-> "components",
                               msg |-> "Invalid number of components"]])

\* decode.go 303-305
setOutColorSpace(c) ==
  IF c.nComp = 3 THEN [c EXCEPT !.outColorSpace = "JCS_EXT_RGBA"] ELSE c

\* decode.go 303-307: jpeg_start_decompress computes the output dimensions
\* (no scaling is requested: they are the header's)
jpeg_start_decompress(p) ==
  LET c == setOutColorSpace(call[p])
      called == Log(c, "jpeg_start_decompress", c.outColorSpace, 0, 0)
      started == [called EXCEPT !.width = c.imageWidth,
                                !.height = c.imageHeight]
  IN
  /\ c.pc = "jpeg_start_decompress"
  /\ \E out \in Outcomes :
       call' = [call EXCEPT ![p] =
                  Native("jpeg_start_decompress", out,
                         decodeDispatch(started), called)]
  /\ UNCHANGED harnessVars

\* one turn of the row loop of decodeToGray (168-172), decodeToRgba
\* (206-210), decodeCmykToRgba (229-256): read one scanline, store row y
jpeg_read_scanlines(p) ==
  LET c == call[p]
      called == Log(c, "jpeg_read_scanlines", "", c.y, c.nBytes)
  IN
  /\ c.pc = "jpeg_read_scanlines"
  /\ c.y < c.height
  /\ \E out \in Outcomes :
       call' = [call EXCEPT ![p] =
                  Native("jpeg_read_scanlines", out,
                         [called EXCEPT !.limg.rows = c.limg.rows \cup {c.y},
                                        !.y = c.y + 1],
                         called)]
  /\ UNCHANGED harnessVars

\* the row loop is over: C.free(bufBytes), return img; DecodeData assigns it
\* and returns (decode.go 173-174, 212-213, 257-258, 310-319)
decodeReturn(p) ==
  LET c == call[p] IN
  /\ c.pc = "jpeg_read_scanlines"
  /\ c.y >= c.height
  /\ call' = [call EXCEPT ![p] =
                Return([Log(c, "free", "bufBytes", 0, 0) EXCEPT !.img = c.limg])]
  /\ UNCHANGED harnessVars

(* ------------------------------- Encode -------------------------------- *)

\* the qualities a caller passes in Options
Qualities == {0 - 1, 0, 1, DefaultQuality, 100, 101}

\* the *Options a caller passes: nil, or Options{Quality: q}
OptionsValues == {NilOptions} \cup {[set |-> TRUE, Quality |-> q] : q \in Qualities}

\* the concrete types of the source image: *image.Gray, *image.RGBA, any other
ImageKinds == {"Gray", "RGBA", "other"}

\* a default of 90, the quality of the README and the benchmarks
resolveQuality_Default90(o) == IF o.set THEN o.Quality ELSE 90

\* encode.go 57-60
resolveQuality(o) == IF o.set THEN o.Quality ELSE 75

\* a size check that lets an empty image through
invalidSize_NegativeOnly(dx, dy) == dx < 0 \/ dy < 0

\* encode.go 50-55: the size check
invalidSize(dx, dy) == dx <= 0 \/ dy <= 0

\* encode.go 62-74: the two mallocs with their deferred frees, jpeg_std_error,
\* error_exit, alloc_mem_helper
compressSetup(c) ==
  LET c2 == Defer(Log(c, "malloc", "cinfo", 0, 0), "free_cinfo")
      c3 == Defer(Log(c2, "malloc", "cinfo.err", 0, 0), "free_cinfo.err")
      c4 == Log(c3, "jpeg_std_error", "", 0, 0)
      c5 == Log(c4, "calloc", "memHelper", 0, 0)
  IN  [c5 EXCEPT !.pc = "jpeg_CreateCompress"]

\* encode.go 39-74: Encode of a source of concrete type `kind` whose bounds
\* are dx wide and dy high, with options o, up to its first native call
encodeEntry(c, kind, dx, dy, o) ==
  LET c1 == Defer([c EXCEPT !.op = "Encode", !.kind = kind, !.dx = dx,
                            !.dy = dy, !.o = o], "recover")
  IN  IF invalidSize(dx, dy)
      THEN Return([c1 EXCEPT !.err = [kind |-> "size",
                                      msg |-> "image with invalid size"]])
      ELSE compressSetup([c1 EXCEPT !.quality = resolveQuality(o)])

Encode(p) ==
  LET c == call[p] IN
  /\ c.pc = "idle"
  /\ \E kind \in ImageKinds, dx \in (0 - 1)..MaxWidth, dy \in (0 - 1)..MaxHeight,
        o \in OptionsValues :
       call' = [call EXCEPT ![p] = encodeEntry(c, kind, dx, dy, o)]
  /\ UNCHANGED harnessVars

\* encode.go 75
jpeg_CreateCompress(p) ==
  LET c == call[p]
      called == Log(c, "jpeg_CreateCompress", "", 0, 0)
  IN
  /\ c.pc = "jpeg_CreateCompress"
  /\ \E out \in Outcomes :
       call' = [call EXCEPT ![p] =
                  Native("jpeg_CreateCompress", out,
                         [called EXCEPT !.pc = "jpeg_mem_dest"], called)]
  /\ UNCHANGED harnessVars

\* a configuration that takes an *image.RGBA source as 4 bytes per pixel
encodeConfigure_RgbaFourBytes(c) ==
  CASE c.kind = "Gray" ->
         [c EXCEPT !.nBytes = c.dx, !.inputComponents = 1,
                   !.inColorSpace = "JCS_GRAYSCALE"]
    [] c.kind = "RGBA" ->
         [c EXCEPT !.nBytes = c.dx * 4, !.inputComponents = 4,
                   !.inColorSpace = "JCS_EXT_RGBA"]
    [] OTHER ->
         [c EXCEPT !.nBytes = c.dx * 3, !.inputComponents = 3,
                   !.inColorSpace = "JCS_RGB"]

\* encode.go 78-99: the row size, input_components and in_color_space chosen
\* from the source's concrete type
encodeConfigure(c) ==
  IF c.kind = "Gray"
  THEN [c EXCEPT !.nBytes = c.dx, !.inputComponents = 1,
                 !.inColorSpace = "JCS_GRAYSCALE"]
  ELSE [c EXCEPT !.nBytes = c.dx * 3, !.inputComponents = 3,
                 !.inColorSpace = "JCS_RGB"]

\* encode.go 76-99: jpeg_mem_dest; the library allocates the output buffer
\* behind memHelper.buf, which the caller has to free
jpeg_mem_dest(p) ==
  LET c == call[p]
      called == Log(c, "jpeg_mem_dest", "", 0, 0)
  IN
  /\ c.pc = "jpeg_mem_dest"
  /\ \E out \in Outcomes :
       call' = [call EXCEPT ![p] =
                  Native("jpeg_mem_dest", out,
                         [encodeConfigure(Log(called, "malloc", "memHelper.buf", 0, 0))
                            EXCEPT !.pc = "jpeg_set_defaults"],
                         called)]
  /\ UNCHANGED harnessVars

\* encode.go 101
jpeg_set_defaults(p) ==
  LET c == call[p]
      called == Log(c, "jpeg_set_defaults", c.inColorSpace, 0, c.inputComponents)
  IN
  /\ c.pc = "jpeg_set_defaults"
  /\ \E out \in Outcomes :
       call' = [call EXCEPT ![p] =
                  Native("jpeg_set_defaults", out,
                         [called EXCEPT !.pc = "jpeg_set_quality"], called)]
  /\ UNCHANGED harnessVars

\* encode.go 102
jpeg_set_quality(p) ==
  LET c == call[p]
      called == Log(c, "jpeg_set_quality", "", 0, c.quality)
  IN
  /\ c.pc = "jpeg_set_quality"
  /\ \E out \in Outcomes :
       call' = [call EXCEPT ![p] =
                  Native("jpeg_set_quality", out,
                         [called EXCEPT !.pc = "jpeg_start_compress"], called)]
  /\ UNCHANGED harnessVars

\* encode.go 103-107: jpeg_start_compress, then C.malloc(nBytes)
jpeg_start_compress(p) ==
  LET c == call[p]
      called == Log(c, "jpeg_start_compress", "", 0, 0)
  IN
  /\ c.pc = "jpeg_start_compress"
  /\ \E out \in Outcomes :
       call' = [call EXCEPT ![p] =
                  Native("jpeg_start_compress", out,
                         [Log(called, "malloc", "bufBytes", 0, c.nBytes)
                            EXCEPT !.y = 0, !.pc = "jpeg_write_scanlines"],
                         called)]
  /\ UNCHANGED harnessVars

\* one turn of the row loop (encode.go 109-150): fill the scratch row from
\* row y of the source, write one scanline
jpeg_write_scanlines(p) ==
  LET c == call[p]
      called == Log(c, "jpeg_write_scanlines", "", c.y, c.nBytes)
  IN
  /\ c.pc = "jpeg_write_scanlines"
  /\ c.y < c.dy
  /\ \E out \in Outcomes :
       call' = [call EXCEPT ![p] =
                  Native("jpeg_write_scanlines", out,
                         [called EXCEPT !.y = c.y + 1], called)]
  /\ UNCHANGED harnessVars

\* an Encode that drains the destination buffer into w before
\* jpeg_finish_compress
jpeg_finish_compress_AfterWrite(p) ==
  LET c == call[p]
      drained == [Log(c, "w.Write", "", 0, 0)
                    EXCEPT !.wrote = Append(c.wrote,
                                            [data |-> [rows |-> c.y],
                                             complete |-> TRUE])]
      called == Log(drained, "jpeg_finish_compress", "", 0, 0)
  IN
  /\ c.pc = "jpeg_write_scanlines"
  /\ c.y >= c.dy
  /\ \E out \in Outcomes :
       call' = [call EXCEPT ![p] =
                  Native("jpeg_finish_compress", out,
                         [called EXCEPT !.pc = "jpeg_destroy_compress"], called)]
  /\ UNCHANGED harnessVars

\* encode.go 152
jpeg_finish_compress(p) ==
  LET c == call[p]
      called == Log(c, "jpeg_finish_compress", "", 0, 0)
  IN
  /\ c.pc = "jpeg_write_scanlines"
  /\ c.y >= c.dy
  /\ \E out \in Outcomes :
       call' = [call EXCEPT ![p] =
                  Native("jpeg_finish_compress", out,
                         [called EXCEPT !.pc = "jpeg_destroy_compress"], called)]
  /\ UNCHANGED harnessVars

\* encode.go 153
jpeg_destroy_compress(p) ==
  LET c == call[p] IN
  /\ c.pc = "jpeg_destroy_compress"
  /\ call' = [call EXCEPT ![p] =
                [Log(c, "jpeg_destroy_compress", "", 0, 0) EXCEPT !.pc = "w.Write"]]
  /\ UNCHANGED harnessVars

\* the bytes the library left in memHelper.buf: a function of what the call
\* handed to the library
compressedBytes(c) ==
  [components |-> c.inputComponents, colorSpace |-> c.inColorSpace,
   kind |-> c.kind, dx |-> c.dx, dy |-> c.dy, quality |-> c.quality,
   rows |-> c.y]

\* an Encode that frees the destination buffer before it copies it out
writeOutput_FreeBeforeWrite(p) ==
  LET c == call[p] IN
  /\ c.pc = "w.Write"
  /\ \E complete \in BOOLEAN :
       LET c1 == Log(c, "free", "memHelper.buf", 0, 0)
           c2 == [Log(c1, "w.Write", "", 0, 0)
                    EXCEPT !.wrote = Append(c.wrote,
                                            [data |-> compressedBytes(c),
                                             complete |-> complete])]
           c3 == Log(c2, "free", "bufBytes", 0, 0)
           c4 == Log(c3, "free", "memHelper", 0, 0)
       IN  call' = [call EXCEPT ![p] = Return(c4)]
  /\ UNCHANGED harnessVars

\* encode.go 155-160: C.GoBytes, w.Write (whose results are dropped), the
\* three frees, return nil
writeOutput(p) ==
  LET c == call[p] IN
  /\ c.pc = "w.Write"
  /\ \E complete \in BOOLEAN :
       LET c1 == [Log(c, "w.Write", "", 0, 0)
                    EXCEPT !.wrote = Append(c.wrote,
                                            [data |-> compressedBytes(c),
                                             complete |-> complete])]
           c2 == Log(c1, "free", "memHelper.buf", 0, 0)
           c3 == Log(c2, "free", "bufBytes", 0, 0)
           c4 == Log(c3, "free", "memHelper", 0, 0)
       IN  call' = [call EXCEPT ![p] = Return(c4)]
  /\ UNCHANGED harnessVars

(* ------------------- decodeCmykToRgba, one scanline -------------------- *)

\* Go's conversion uint8(v) keeps the low eight bits
Uint8(v) == v % 256

\* the product taken in byte arithmetic: uint8(raw * k) / 255
cmykChannel_ByteProduct(raw, k) == Uint8(Uint8(raw * k) \div 255)

\* decode.go 243-245: uint8(c * k / 255) with c and k of type uint32, each
\* converted from a byte: the uint32 product is at most 255 * 255 and does
\* not wrap at 2^32
cmykChannel(raw, k) == Uint8((raw * k) \div 255)

\* decode.go 234-254: one turn of the pixel loop: four bytes read from the
\* scratch row at srcOff (0-based), four bytes stored to img.Pix at off
cmykPixelStep(c) ==
  LET cc == c.buf[c.srcOff + 1]
      m == c.buf[c.srcOff + 2]
      yy == c.buf[c.srcOff + 3]
      k == c.buf[c.srcOff + 4]
      r == cmykChannel(cc, k)
      g == cmykChannel(m, k)
      b == cmykChannel(yy, k)
  IN  [c EXCEPT !.srcOff = c.srcOff + 4,
                !.pix = [i \in 1..Len(c.pix) |->
                           CASE i = c.off + 1 -> r
                             [] i = c.off + 2 -> g
                             [] i = c.off + 3 -> b
                             [] i = c.off + 4 -> 255
                             [] OTHER -> c.pix[i]],
                !.off = c.off + 4,
                !.x = c.x + 1]

\* decode.go 229-233: decodeCmykToRgba at row y of a dx by dy image, the
\* scanline just read into buf: off := y * img.Stride, srcOff := 0
cmykRowStart(dx, dy, y, buf) ==
  [IdleCall EXCEPT !.op = "decodeCmykToRgba", !.pc = "cmyk pixels",
                   !.nComp = 4, !.width = dx, !.height = dy, !.y = y,
                   !.nBytes = dx * 4, !.stride = dx * 4, !.buf = buf,
                   !.pix = [i \in 1..(dx * 4 * dy) |-> 0],
                   !.off = y * (dx * 4), !.srcOff = 0, !.x = 0]

\* decode.go 233-255
cmykPixel(p) ==
  LET c == call[p] IN
  /\ c.pc = "cmyk pixels"
  /\ c.x < c.width
  /\ call' = [call EXCEPT ![p] = cmykPixelStep(c)]
  /\ UNCHANGED harnessVars

(* --------------------------- deferred calls --------------------------- *)

\* defer C.free(unsafe.Pointer(cinfo)), defer C.free(unsafe.Pointer(cinfo.err))
deferredFree(p) ==
  LET c == call[p] IN
  /\ c.pc = "unwind"
  /\ Len(c.defers) > 0
  /\ Top(c) \in {"free_cinfo", "free_cinfo.err"}
  /\ call' = [call EXCEPT ![p] =
                Pop(Log(c, "free",
                        IF Top(c) = "free_cinfo" THEN "cinfo" ELSE "cinfo.err",
                        0, 0))]
  /\ UNCHANGED harnessVars

\* defer C.jpeg_destroy_decompress(cinfo)
deferredDestroyDecompress(p) ==
  LET c == call[p] IN
  /\ c.pc = "unwind"
  /\ Len(c.defers) > 0
  /\ Top(c) = "jpeg_destroy_decompress"
  /\ call' = [call EXCEPT ![p] =
                Pop(Log(c, "jpeg_destroy_decompress", "", 0, 0))]
  /\ UNCHANGED harnessVars

\* what jpeg_finish_decompress does on a context of which y of height
\* scanlines were read: the library raises "Application transferred too few
\* scanlines" when rows are missing, and can raise or return otherwise
finishOutcomes(y, height) == IF y < height THEN {"fatal"} ELSE Outcomes

\* defer C.jpeg_finish_decompress(cinfo): a native call that can reach
\* error_exit; it runs on every return after jpeg_start_decompress, also
\* while panicking, and a panic it raises replaces the one in flight
deferredFinishDecompress(p) ==
  LET c == call[p]
      called == Pop(Log(c, "jpeg_finish_decompress", "", 0, c.y))
  IN
  /\ c.pc = "unwind"
  /\ Len(c.defers) > 0
  /\ Top(c) = "jpeg_finish_decompress"
  /\ \E out \in finishOutcomes(c.y, c.height) :
       call' = [call EXCEPT ![p] =
                  Native("jpeg_finish_decompress", out, called, called)]
  /\ UNCHANGED harnessVars

\* the deferred closure with recover()
deferredRecover(p) ==
  LET c == call[p] IN
  /\ c.pc = "unwind"
  /\ Len(c.defers) > 0
  /\ Top(c) = "recover"
  /\ call' = [call EXCEPT ![p] = Pop(recoverHandler(c))]
  /\ UNCHANGED harnessVars

\* no deferred call is left: the call returns to its caller, or, still
\* panicking, the Go runtime ends the process
returnToCaller(p) ==
  LET c == call[p] IN
  /\ c.pc = "unwind"
  /\ Len(c.defers) = 0
  /\ call' = [call EXCEPT ![p] =
                [c EXCEPT !.pc = IF c.panic.kind = "none" THEN "done"
                                 ELSE "crashed"]]
  /\ UNCHANGED harnessVars

(* ------------------- stress_test/main.go: the harness ------------------ *)

\* two of the nWorkers goroutines main starts (main.go 321-328)
Workers == {1, 2}
Items == 1..NumImages

\* nil, for the encodedData of an image no worker has published yet
NilBytes == <<>>

\* the native heap: blocks of C memory, each allocated or free
Addrs == 1..(4 * Cardinality(Workers))
EmptyHeap == [a \in Addrs |-> [used |-> FALSE, data |-> <<>>]]

\* a scratch row kept in one static block that every call uses
malloc_StaticBlock(h) == 1

\* C.malloc (decode.go 164, 203; encode.go 105; jpeg_mem_dest's buffer): a
\* block no call holds
malloc(h) == CHOOSE a \in Addrs : ~h[a].used /\ \A b \in 1..(a - 1) : h[b].used

Allocate(h, a) == [h EXCEPT ![a] = [used |-> TRUE, data |-> <<>>]]
Store(h, a, v) == [h EXCEPT ![a].data = v]
Free(h, a) == [h EXCEPT ![a].used = FALSE]

\* row y of the pixels the library decodes from the data of image i
SourceRow(i, y) == <<i, y>>

\* main.go 307: the image DecodeData gave during single-threaded setup
DecodedImage(i) == [y \in 1..HarnessRows |-> SourceRow(i, y - 1)]

\* encodeLibjpeg (main.go 193-199): the bytes Encode leaves for the rows it
\* handed to the library, at Quality 90
EncodedBytes(rows) == <<[quality |-> 90, rows |-> rows]>>

IdleWorker ==
  [pc |-> "recv", item |-> 0, img |-> <<>>, y |-> 0, buf |-> 0, out |-> 0,
   encoded |-> NilBytes, sawNil |-> FALSE, failure |-> "", n |-> 0]

\* main.go 300-329: the corpus after setup with `loaded` of its files read
\* and decoded, the workers started, main about to send images[0]
HarnessLoaded(loaded) ==
  /\ mu = 0
  /\ images = [i \in 1..loaded |-> [img |-> DecodedImage(i),
                                    encodedData |-> NilBytes,
                                    published |-> <<>>]]
  /\ sendIndex = 0
  /\ nSent = 0
  /\ nEncoded = 0
  /\ worker = [w \in Workers |-> IdleWorker]
  /\ heap = EmptyHeap
  /\ nTotalEncodedSize = 0
  /\ main = "send"
  /\ passed = [n |-> 0, size |-> 0]
  /\ returned = <<>>

\* every file of the corpus was read and decoded
HarnessStart == HarnessLoaded(NumImages)

\* the harness is not running
HarnessIdle ==
  /\ mu = 0
  /\ images = <<>>
  /\ sendIndex = 0
  /\ nSent = 0
  /\ nEncoded = 0
  /\ worker = <<>>
  /\ heap = EmptyHeap
  /\ nTotalEncodedSize = 0
  /\ main = "idle"
  /\ passed = [n |-> 0, size |-> 0]
  /\ returned = <<>>

\* main.go 331-335 and 235: main sends images[i] on the unbuffered channel,
\* a worker at the head of its loop receives it; i++, i = i % len(images)
receive(w) ==
  /\ main = "send"
  /\ worker[w].pc = "recv"
  /\ nSent < MaxSends
  /\ sendIndex < Len(images)
  /\ worker' = [worker EXCEPT ![w] = [IdleWorker EXCEPT !.item = sendIndex + 1,
                                                        !.pc = "Decode"]]
  /\ sendIndex' = (sendIndex + 1) % Len(images)
  /\ nSent' = nSent + 1
  /\ UNCHANGED <<call, mu, images, nEncoded, heap,
                 nTotalEncodedSize, main, passed, returned>>

\* main.go 332: images[i] with i outside the loaded corpus is an index out
\* of range; the panic in main ends the process
sendPanic ==
  /\ main = "send"
  /\ sendIndex >= Len(images)
  /\ main' = "panicked"
  /\ UNCHANGED <<call, mu, images, sendIndex, nSent, nEncoded, worker, heap,
                 nTotalEncodedSize, passed, returned>>

\* main.go 238, decode.go 160-166: Decode allocates its image and scratch row
decodeStart(w) ==
  LET a == malloc(heap) IN
  /\ worker[w].pc = "Decode"
  /\ heap' = Allocate(heap, a)
  /\ worker' = [worker EXCEPT ![w].buf = a, ![w].img = <<>>, ![w].y = 0,
                              ![w].pc = "jpeg_read_scanlines"]
  /\ UNCHANGED <<call, mu, images, sendIndex, nSent, nEncoded,
               nTotalEncodedSize, main, passed, returned>>

\* decode.go 169: the library leaves row y in the scratch row
readRow(w) ==
  LET me == worker[w] IN
  /\ me.pc = "jpeg_read_scanlines"
  /\ me.y < HarnessRows
  /\ heap' = Store(heap, me.buf, SourceRow(me.item, me.y))
  /\ worker' = [worker EXCEPT ![w].pc = "copy"]
  /\ UNCHANGED <<call, mu, images, sendIndex, nSent, nEncoded,
               nTotalEncodedSize, main, passed, returned>>

\* decode.go 170-171: the scratch row is copied into the image
copyRow(w) ==
  LET me == worker[w] IN
  /\ me.pc = "copy"
  /\ worker' = [worker EXCEPT ![w].img = Append(me.img, heap[me.buf].data),
                              ![w].y = me.y + 1,
                              ![w].pc = "jpeg_read_scanlines"]
  /\ UNCHANGED <<call, mu, images, sendIndex, nSent, nEncoded, heap,
               nTotalEncodedSize, main, passed, returned>>

\* decode.go 173-174, main.go 239-243: the scratch row is freed, Decode
\* returns, validateImgEq compares with the image of the setup
validateImgEq(w) ==
  LET me == worker[w] IN
  /\ me.pc = "jpeg_read_scanlines"
  /\ me.y >= HarnessRows
  /\ heap' = Free(heap, me.buf)
  /\ worker' = [worker EXCEPT ![w] =
                  IF me.img = images[me.item].img
                  THEN [me EXCEPT !.pc = "Encode"]
                  ELSE [me EXCEPT !.pc = "panicked",
                                  !.failure = "decoded image not consistent across runs"]]
  /\ UNCHANGED <<call, mu, images, sendIndex, nSent, nEncoded,
               nTotalEncodedSize, main, passed, returned>>

(* --------------------------- specification ---------------------------- *)

\* one call at a time: DecodeData, Decode, GetJpegInfo or Encode
Init ==
  /\ call = [p \in {"main"} |-> IdleCall]
  /\ HarnessIdle

Next ==
  \/ \E p \in DOMAIN call : DecodeData(p)
  \/ \E p \in DOMAIN call : Decode(p)
  \/ \E p \in DOMAIN call : GetJpegInfo(p)
  \/ \E p \in DOMAIN call : jpeg_CreateDecompress(p)
  \/ \E p \in DOMAIN call : jpeg_mem_src(p)
  \/ \E p \in DOMAIN call : jpeg_read_header(p)
  \/ \E p \in DOMAIN call : jpeg_start_decompress(p)
  \/ \E p \in DOMAIN call : jpeg_read_scanlines(p)
  \/ \E p \in DOMAIN call : decodeReturn(p)
  \/ \E p \in DOMAIN call : Encode(p)
  \/ \E p \in DOMAIN call : jpeg_CreateCompress(p)
  \/ \E p \in DOMAIN call : jpeg_mem_dest(p)
  \/ \E p \in DOMAIN call : jpeg_set_defaults(p)
  \/ \E p \in DOMAIN call : jpeg_set_quality(p)
  \/ \E p \in DOMAIN call : jpeg_start_compress(p)
  \/ \E p \in DOMAIN call : jpeg_write_scanlines(p)
  \/ \E p \in DOMAIN call : jpeg_finish_compress(p)
  \/ \E p \in DOMAIN call : jpeg_destroy_compress(p)
  \/ \E p \in DOMAIN call : writeOutput(p)
  \/ \E p \in DOMAIN call : deferredFree(p)
  \/ \E p \in DOMAIN call : deferredDestroyDecompress(p)
  \/ \E p \in DOMAIN call : deferredFinishDecompress(p)
  \/ \E p \in DOMAIN call : deferredRecover(p)
  \/ \E p \in DOMAIN call : returnToCaller(p)

Spec == Init /\ [][Next]_vars

(* Encode called twice on the same image, first with nil options, then with *)
(* Options{Quality: 75}, each call with the outcomes the library gives it.   *)
InitQuality ==
  /\ \E kind \in ImageKinds, dx \in 1..MaxWidth, dy \in 1..MaxHeight :
       call = [p \in {"nil", "explicit"} |->
                 encodeEntry(IdleCall, kind, dx, dy,
                             IF p = "nil" THEN NilOptions
                             ELSE [set |-> TRUE, Quality |-> DefaultQuality])]
  /\ HarnessIdle

\* the two calls are made one after the other
Turn == IF call["nil"].pc # "done" THEN {"nil"} ELSE {"explicit"}

NextQuality ==
  \/ \E p \in Turn : jpeg_CreateCompress(p)
  \/ \E p \in Turn : jpeg_mem_dest(p)
  \/ \E p \in Turn : jpeg_set_defaults(p)
  \/ \E p \in Turn : jpeg_set_quality(p)
  \/ \E p \in Turn : jpeg_start_compress(p)
  \/ \E p \in Turn : jpeg_write_scanlines(p)
  \/ \E p \in Turn : jpeg_finish_compress(p)
  \/ \E p \in Turn : jpeg_destroy_compress(p)
  \/ \E p \in Turn : writeOutput(p)
  \/ \E p \in Turn : deferredFree(p)
  \/ \E p \in Turn : deferredRecover(p)
  \/ \E p \in Turn : returnToCaller(p)

SpecQuality == InitQuality /\ [][NextQuality]_vars

(* decodeCmykToRgba on one scanline: the bytes the library left in the       *)
(* scratch row are the input.  One channel and K sweep all byte values with  *)
(* the other channels at 0; rows of up to MaxWidth pixels take their bytes   *)
(* from the two ends of the byte range.                                      *)
Byte == 0..255
EdgeBytes == {0, 255}

\* the scanlines of rows up to maxWidth pixels wide in images maxHeight high
CmykScanlines(maxWidth, maxHeight) ==
  {[dx |-> 1, dy |-> 1, y |-> 0,
    buf |-> <<IF ch = 1 THEN v ELSE 0, IF ch = 2 THEN v ELSE 0,
              IF ch = 3 THEN v ELSE 0, k>>] :
      ch \in 1..3, v \in Byte, k \in Byte}
  \cup UNION {{[dx |-> dx, dy |-> maxHeight, y |-> y, buf |-> b] :
                 y \in 0..(maxHeight - 1), b \in [1..(4 * dx) -> EdgeBytes]} :
               dx \in 1..maxWidth}

InitCmyk ==
  /\ \E s \in CmykScanlines(MaxWidth, MaxHeight) :
       call = [p \in {"row"} |-> cmykRowStart(s.dx, s.dy, s.y, s.buf)]
  /\ HarnessIdle

NextCmyk == \E p \in DOMAIN call : cmykPixel(p)

SpecCmyk == InitCmyk /\ [][NextCmyk]_vars

(* ------------------ Encode of a sub-image view, row loops -------------- *)

\* bytes per pixel of the pixel slice of an *image.Gray / *image.RGBA
PixBytes(kind) == IF kind = "Gray" THEN 1 ELSE 4

\* the non-empty rectangles inside the bounds (0,0)-(w,h) of a decoded image
SubRects(w, h) ==
  {r \in [minX : 0..(w - 1), minY : 0..(h - 1), maxX : 1..w, maxY : 1..h] :
     r.minX < r.maxX /\ r.minY < r.maxY}

\* part_000 SubImage on a decoded w by h image of type `kind`, through the
\* type's SubImage method: the view shares the parent's pixels, its Pix
\* starts at the parent's PixOffset(r.Min.X, r.Min.Y), its Stride is the
\* parent's, its bounds are r
SubImage(c, kind, w, h, r) ==
  LET stride == w * PixBytes(kind)
      i == r.minY * stride + r.minX * PixBytes(kind)
  IN  [c EXCEPT !.kind = kind, !.parentW = w, !.parentH = h, !.rect = r,
                !.stride = stride, !.viewOff = i,
                !.pixLen = stride * h - i,
                !.dx = r.maxX - r.minX, !.dy = r.maxY - r.minY]

\* the byte of the source's Pix at index i (0-based): each byte of the
\* source stands for itself
SourceByte(i) == i

\* the scratch row C.malloc(nBytes) gives (encode.go 105-107): n bytes not
\* yet written, each 0 - 1
NewScratchRow(n) == [i \in 1..n |-> 0 - 1]

\* Encode of a view, at the head of its row loop (encode.go 50-108): the
\* size is valid, the context is configured and compression has started
encodeView(c) ==
  LET c1 == encodeConfigure([c EXCEPT !.op = "Encode"])
  IN  [c1 EXCEPT !.y = 0, !.pc = "row loop", !.buf = NewScratchRow(c1.nBytes)]

\* an offset counted in rows of the scratch buffer, not of the source
rowOffset_ByRowBytes(c, y) == y * c.nBytes

\* encode.go 111, 117: off := y * gray.Stride, off := y * rgba.Stride
rowOffset(c, y) == y * c.stride

\* a slice expression or an index out of range
RuntimePanic(c) ==
  GoPanicValue(c, [kind |-> "runtime", msg |-> "index out of range"])

\* encode.go 110-114: one turn of the gray loop: nBytes bytes copied from
\* gray.Pix[off:off+nBytes], one scanline written
grayRow(p) ==
  LET c == call[p]
      off == rowOffset(c, c.y)
      row == [i \in 1..c.nBytes |-> SourceByte(off + i - 1)]
      copied == [c EXCEPT !.off = off,
                          !.reads = c.reads \cup
                             {<<c.y, i>> : i \in off..(off + c.nBytes - 1)},
                          !.buf = row, !.handed = Append(c.handed, row)]
      called == Log(copied, "jpeg_write_scanlines", "", c.y, c.nBytes)
  IN
  /\ c.pc = "row loop"
  /\ c.kind = "Gray"
  /\ c.y < c.dy
  /\ \E out \in Outcomes :
       call' = [call EXCEPT ![p] =
                  IF off + c.nBytes > c.pixLen
                  THEN RuntimePanic(c)
                  ELSE Native("jpeg_write_scanlines", out,
                              [called EXCEPT !.y = c.y + 1], called)]
  /\ UNCHANGED harnessVars

\* encode.go 116-120: p := rgba.Pix[off:], dstOff := 0, srcOff := 0
rgbaRowStart(p) ==
  LET c == call[p]
      off == rowOffset(c, c.y)
  IN
  /\ c.pc = "row loop"
  /\ c.kind = "RGBA"
  /\ c.y < c.dy
  /\ call' = [call EXCEPT ![p] =
                IF off > c.pixLen
                THEN RuntimePanic(c)
                ELSE [c EXCEPT !.off = off, !.srcOff = 0, !.dstOff = 0,
                               !.x = 0, !.pc = "rgba pixels"]]
  /\ UNCHANGED harnessVars

\* the bytes of buf from dstOff on replaced by the n bytes of p at srcOff
CopyBytes(c, n) ==
  [i \in 1..Len(c.buf) |->
     IF i - 1 \in c.dstOff..(c.dstOff + n - 1)
     THEN SourceByte(c.off + c.srcOff + (i - 1 - c.dstOff))
     ELSE c.buf[i]]

\* a pixel loop that steps over the source 3 bytes at a time
rgbaPixel_NoAlphaSkip(p) ==
  LET c == call[p]
      first == c.off + c.srcOff
  IN
  /\ c.pc = "rgba pixels"
  /\ c.x < c.dx
  /\ call' = [call EXCEPT ![p] =
                IF first + 2 >= c.pixLen \/ c.dstOff + 2 >= Len(c.buf)
                THEN RuntimePanic(c)
                ELSE [c EXCEPT !.reads = c.reads \cup
                                  {<<c.y, i>> : i \in first..(first + 2)},
                               !.buf = CopyBytes(c, 3),
                               !.dstOff = c.dstOff + 3,
                               !.srcOff = c.srcOff + 3, !.x = c.x + 1]]
  /\ UNCHANGED harnessVars

\* encode.go 121-131: buf[dstOff] = p[srcOff] three times, dstOff advanced
\* by 3 and srcOff by 4; an index outside p or buf panics
rgbaPixel(p) ==
  LET c == call[p]
      first == c.off + c.srcOff
  IN
  /\ c.pc = "rgba pixels"
  /\ c.x < c.dx
  /\ call' = [call EXCEPT ![p] =
                IF first + 2 >= c.pixLen \/ c.dstOff + 2 >= Len(c.buf)
                THEN RuntimePanic(c)
                ELSE [c EXCEPT !.reads = c.reads \cup
                                  {<<c.y, i>> : i \in first..(first + 2)},
                               !.buf = CopyBytes(c, 3),
                               !.dstOff = c.dstOff + 3,
                               !.srcOff = c.srcOff + 4, !.x = c.x + 1]]
  /\ UNCHANGED harnessVars

\* encode.go 133: the row is complete, one scanline written
rgbaRowWrite(p) ==
  LET c == call[p]
      called == Log([c EXCEPT !.handed = Append(c.handed, c.buf)],
                    "jpeg_write_scanlines", "", c.y, c.nBytes)
  IN
  /\ c.pc = "rgba pixels"
  /\ c.x >= c.dx
  /\ \E out \in Outcomes :
       call' = [call EXCEPT ![p] =
                  Native("jpeg_write_scanlines", out,
                         [called EXCEPT !.y = c.y + 1, !.pc = "row loop"],
                         called)]
  /\ UNCHANGED harnessVars

\* Encode of the view SubImage gives for a non-empty rectangle of a decoded
\* Gray or RGBA image
InitSubImage ==
  /\ \E kind \in {"Gray", "RGBA"}, w \in 1..MaxParentWidth,
        h \in 1..MaxParentHeight :
       \E r \in SubRects(w, h) :
         call = [p \in {"view"} |-> encodeView(SubImage(IdleCall, kind, w, h, r))]
  /\ HarnessIdle

NextSubImage ==
  \/ \E p \in DOMAIN call : grayRow(p)
  \/ \E p \in DOMAIN call : rgbaRowStart(p)
  \/ \E p \in DOMAIN call : rgbaPixel(p)
  \/ \E p \in DOMAIN call : rgbaRowWrite(p)

SpecSubImage == InitSubImage /\ [][NextSubImage]_vars

(* ------------- Encode of any other image type, row loop ---------------- *)

\* the colour of the parent's pixel at (x, y), each pixel its own colour;
\* 0 is the zero colour
ParentColour(c, x, y) == y * c.parentW + x + 1

\* m.At(x, y) of a view with bounds c.rect (image.NRGBA.At and the like):
\* the parent's pixel when (x, y) is inside the bounds, the zero colour
\* otherwise
At(c, x, y) ==
  IF x >= c.rect.minX /\ x < c.rect.maxX /\ y >= c.rect.minY /\ y < c.rect.maxY
  THEN ParentColour(c, x, y)
  ELSE 0

\* encode.go 140-144: byte(r >> 8), byte(g >> 8), byte(b >> 8) of a colour,
\* k = 0, 1, 2
ColourByte(colour, k) == colour * 3 + k

\* encode.go 136-137: off := 0 at the head of a row
genericRowStart(p) ==
  LET c == call[p] IN
  /\ c.pc = "row loop"
  /\ c.kind = "other"
  /\ c.y < c.dy
  /\ call' = [call EXCEPT ![p] =
                [c EXCEPT !.dstOff = 0, !.x = 0, !.pc = "generic pixels"]]
  /\ UNCHANGED harnessVars

\* encode.go 138-146: m.At(x, y).RGBA() with x and y counted from 0, its
\* three colour bytes stored at buf[off], buf[off+1], buf[off+2]
genericPixel(p) ==
  LET c == call[p]
      colour == At(c, c.x, c.y)
  IN
  /\ c.pc = "generic pixels"
  /\ c.x < c.dx
  /\ call' = [call EXCEPT ![p] =
                IF c.dstOff + 2 >= Len(c.buf)
                THEN RuntimePanic(c)
                ELSE [c EXCEPT !.queries = c.queries \cup {<<c.x, c.y>>},
                               !.buf = [i \in 1..Len(c.buf) |->
                                          IF i - 1 \in c.dstOff..(c.dstOff + 2)
                                          THEN ColourByte(colour, i - 1 - c.dstOff)
                                          ELSE c.buf[i]],
                               !.dstOff = c.dstOff + 3, !.x = c.x + 1]]
  /\ UNCHANGED harnessVars

\* encode.go 148: the row is complete, one scanline written
genericRowWrite(p) ==
  LET c == call[p]
      called == Log([c EXCEPT !.handed = Append(c.handed, c.buf)],
                    "jpeg_write_scanlines", "", c.y, c.nBytes)
  IN
  /\ c.pc = "generic pixels"
  /\ c.x >= c.dx
  /\ \E out \in Outcomes :
       call' = [call EXCEPT ![p] =
                  Native("jpeg_write_scanlines", out,
                         [called EXCEPT !.y = c.y + 1, !.pc = "row loop"],
                         called)]
  /\ UNCHANGED harnessVars

\* Encode of an image that is neither *image.Gray nor *image.RGBA, its
\* bounds any non-empty rectangle of a parent image
InitGeneric ==
  /\ \E w \in 1..MaxParentWidth, h \in 1..MaxParentHeight :
       \E r \in SubRects(w, h) :
         call = [p \in {"view"} |->
                   encodeView(SubImage(IdleCall, "other", w, h, r))]
  /\ HarnessIdle

NextGeneric ==
  \/ \E p \in DOMAIN call : genericRowStart(p)
  \/ \E p \in DOMAIN call : genericPixel(p)
  \/ \E p \in DOMAIN call : genericRowWrite(p)

SpecGeneric == InitGeneric /\ [][NextGeneric]_vars

(* ---------------- the harness: encode, publish, compare ---------------- *)

\* main.go 244, encode.go 76 and 105: Encode gets its destination buffer
\* and its scratch row
encodeStart(w) ==
  LET out == malloc(heap)
      h1 == Allocate(heap, out)
      buf == malloc(h1)
  IN
  /\ worker[w].pc = "Encode"
  /\ heap' = Allocate(h1, buf)
  /\ worker' = [worker EXCEPT ![w].out = out, ![w].buf = buf, ![w].y = 0,
                              ![w].pc = "fill"]
  /\ UNCHANGED <<call, mu, images, sendIndex, nSent, nEncoded,
               nTotalEncodedSize, main, passed, returned>>

\* encode.go 110-112, 116-131: row y of the image is copied to the scratch row
fillRow(w) ==
  LET me == worker[w] IN
  /\ me.pc = "fill"
  /\ me.y < HarnessRows
  /\ heap' = Store(heap, me.buf, me.img[me.y + 1])
  /\ worker' = [worker EXCEPT ![w].pc = "jpeg_write_scanlines"]
  /\ UNCHANGED <<call, mu, images, sendIndex, nSent, nEncoded,
               nTotalEncodedSize, main, passed, returned>>

\* encode.go 113, 133: the library compresses the scratch row into the
\* destination buffer
writeRow(w) ==
  LET me == worker[w] IN
  /\ me.pc = "jpeg_write_scanlines"
  /\ heap' = Store(heap, me.out, Append(heap[me.out].data, heap[me.buf].data))
  /\ worker' = [worker EXCEPT ![w].y = me.y + 1, ![w].pc = "fill"]
  /\ UNCHANGED <<call, mu, images, sendIndex, nSent, nEncoded,
               nTotalEncodedSize, main, passed, returned>>

\* encode.go 152-160, main.go 196-198: the destination buffer is copied out
\* and written to buf, the two blocks are freed
encodeReturn(w) ==
  LET me == worker[w] IN
  /\ me.pc = "fill"
  /\ me.y >= HarnessRows
  /\ heap' = Free(Free(heap, me.out), me.buf)
  /\ worker' = [worker EXCEPT ![w].encoded = EncodedBytes(heap[me.out].data),
                              ![w].pc = "mu.Lock"]
  /\ UNCHANGED <<call, mu, images, sendIndex, nSent, nEncoded,
               nTotalEncodedSize, main, passed, returned>>

\* a worker that goes on without taking the mutex
lock_NoMutex(w) ==
  /\ worker[w].pc = "mu.Lock"
  /\ worker' = [worker EXCEPT ![w].pc = "check"]
  /\ UNCHANGED <<call, mu, images, sendIndex, nSent, nEncoded, heap,
               nTotalEncodedSize, main, passed, returned>>

\* main.go 245: mu.Lock() waits until no worker holds the mutex
lock(w) ==
  /\ worker[w].pc = "mu.Lock"
  /\ mu = 0
  /\ mu' = w
  /\ worker' = [worker EXCEPT ![w].pc = "check"]
  /\ UNCHANGED <<call, images, sendIndex, nSent, nEncoded, heap,
               nTotalEncodedSize, main, passed, returned>>

\* main.go 246: if ii.encodedData == nil
checkBaseline(w) ==
  LET me == worker[w] IN
  /\ me.pc = "check"
  /\ worker' = [worker EXCEPT ![w].pc =
                  IF images[me.item].encodedData = NilBytes
                  THEN "publish" ELSE "mu.Unlock"]
  /\ UNCHANGED <<call, mu, images, sendIndex, nSent, nEncoded, heap,
               nTotalEncodedSize, main, passed, returned>>

\* main.go 247: ii.encodedData = encoded; `published` keeps every value
\* stored, with the worker that stored it and the holder of the mutex
publish(w) ==
  LET me == worker[w] IN
  /\ me.pc = "publish"
  /\ images' = [images EXCEPT
                  ![me.item].encodedData = me.encoded,
                  ![me.item].published =
                     Append(@, [data |-> me.encoded, by |-> w, holder |-> mu])]
  /\ worker' = [worker EXCEPT ![w].pc = "mu.Unlock"]
  /\ UNCHANGED <<call, mu, sendIndex, nSent, nEncoded, heap,
               nTotalEncodedSize, main, passed, returned>>

\* main.go 249
unlock(w) ==
  /\ worker[w].pc = "mu.Unlock"
  /\ mu' = IF mu = w THEN 0 ELSE mu
  /\ worker' = [worker EXCEPT ![w].pc = "compare"]
  /\ UNCHANGED <<call, images, sendIndex, nSent, nEncoded, heap,
               nTotalEncodedSize, main, passed, returned>>

\* the bytes one row compresses to
RowLen(row) == row[1]

RECURSIVE RowsLen(_)
RowsLen(rows) == IF rows = <<>> THEN 0 ELSE RowLen(Head(rows)) + RowsLen(Tail(rows))

\* len(encoded) (main.go 253): one byte of header and the compressed rows
EncodedLen(encoded) == 1 + RowsLen(encoded[1].rows)

\* main.go 250-252: bytes.Equal(encoded, ii.encodedData)
compare(w) ==
  LET me == worker[w]
      baseline == images[me.item].encodedData
  IN
  /\ me.pc = "compare"
  /\ worker' = [worker EXCEPT ![w] =
                  IF me.encoded = baseline
                  THEN [me EXCEPT !.pc = "atomic.AddInt64",
                                  !.sawNil = (baseline = NilBytes)]
                  ELSE [me EXCEPT !.pc = "panicked",
                                  !.sawNil = (baseline = NilBytes),
                                  !.failure = "encoded data not consistent across runs"]]
  /\ passed' = IF me.encoded = baseline
               THEN [n |-> passed.n + 1,
                     size |-> passed.size + EncodedLen(me.encoded)]
               ELSE passed
  /\ UNCHANGED <<call, mu, images, sendIndex, nSent, nEncoded, heap,
                 nTotalEncodedSize, main, returned>>

\* main.go 253: atomic.AddInt64(&nTotalEncodedSize, int64(len(encoded)))
addTotalEncodedSize(w) ==
  LET me == worker[w] IN
  /\ me.pc = "atomic.AddInt64"
  /\ nTotalEncodedSize' = nTotalEncodedSize + EncodedLen(me.encoded)
  /\ worker' = [worker EXCEPT ![w].pc = "atomic.AddInt32"]
  /\ UNCHANGED <<call, mu, images, sendIndex, nSent, nEncoded, heap,
                 main, passed, returned>>

\* an increment made of a load and a later store
addEncoded_LoadThenStore(w) ==
  LET me == worker[w] IN
  /\ me.pc = "atomic.AddInt32"
  /\ IF me.n = 0
     THEN /\ worker' = [worker EXCEPT ![w].n = nEncoded + 1]
          /\ UNCHANGED <<nEncoded, returned>>
     ELSE /\ nEncoded' = me.n
          /\ returned' = Append(returned, me.n)
          /\ worker' = [worker EXCEPT ![w].pc = "recv"]
  /\ UNCHANGED <<call, mu, images, sendIndex, nSent, heap,
                 nTotalEncodedSize, main, passed>>

\* main.go 254-257: n := atomic.AddInt32(&nEncoded, 1), a line printed when
\* n is a multiple of 100, back to the head of the loop
addEncoded(w) ==
  LET me == worker[w] IN
  /\ me.pc = "atomic.AddInt32"
  /\ nEncoded' = nEncoded + 1
  /\ returned' = Append(returned, nEncoded + 1)
  /\ worker' = [worker EXCEPT ![w].n = nEncoded + 1, ![w].pc = "recv"]
  /\ UNCHANGED <<call, mu, images, sendIndex, nSent, heap,
                 nTotalEncodedSize, main, passed>>

InitHarness ==
  /\ call = <<>>
  /\ HarnessStart

NextHarness ==
  \/ \E w \in Workers : receive(w)
  \/ \E w \in Workers : decodeStart(w)
  \/ \E w \in Workers : readRow(w)
  \/ \E w \in Workers : copyRow(w)
  \/ \E w \in Workers : validateImgEq(w)
  \/ \E w \in Workers : encodeStart(w)
  \/ \E w \in Workers : fillRow(w)
  \/ \E w \in Workers : writeRow(w)
  \/ \E w \in Workers : encodeReturn(w)
  \/ \E w \in Workers : lock(w)
  \/ \E w \in Workers : checkBaseline(w)
  \/ \E w \in Workers : publish(w)
  \/ \E w \in Workers : unlock(w)
  \/ \E w \in Workers : compare(w)
  \/ \E w \in Workers : addTotalEncodedSize(w)
  \/ \E w \in Workers : addEncoded(w)

SpecHarness == InitHarness /\ [][NextHarness]_vars

\* the harness on a corpus of which any number of files, none included,
\* could be read and decoded (main.go 301-311 skips the others)
InitCorpus ==
  /\ call = <<>>
  /\ \E loaded \in 0..NumImages : HarnessLoaded(loaded)

NextCorpus ==
  \/ NextHarness
  \/ sendPanic

SpecCorpus == InitCorpus /\ [][NextCorpus]_vars

(* ------------- two calls at once: contexts and error managers ---------- *)

\* the calls running concurrently, each on its own goroutine
Callers == {"a", "b"}

\* the msg_code values the library stores before it calls error_exit
MsgCodes == {"JERR_NO_SOI", "JERR_INPUT_EOF"}

\* the error manager cinfo points to (cinfo->err), read from native memory
ErrOf(h, c) == h[c.ptrs.cinfo].data.err

\* decode.go 274-275, encode.go 64-65: cinfo := C.malloc(sizeof struct)
mallocCinfo(p) ==
  LET c == call[p]
      a == malloc(heap)
  IN
  /\ c.pc = "malloc cinfo"
  /\ heap' = Store(Allocate(heap, a), a, [err |-> 0])
  /\ call' = [call EXCEPT ![p] = [c EXCEPT !.ptrs.cinfo = a,
                                           !.pc = "malloc cinfo.err"]]
  /\ UNCHANGED <<mu, images, sendIndex, nSent, nEncoded, worker,
                 nTotalEncodedSize, main, passed, returned>>

\* an error manager kept in one static block that every call points to
mallocCinfoErr_Static(p) ==
  LET c == call[p]
      e == Cardinality(Addrs)
      h1 == Store(Allocate(heap, e), e, [error_exit |-> "", msg_code |-> ""])
  IN
  /\ c.pc = "malloc cinfo.err"
  /\ heap' = Store(h1, c.ptrs.cinfo, [err |-> e])
  /\ call' = [call EXCEPT ![p] = [c EXCEPT !.ptrs.err = e,
                                           !.pc = "jpeg_std_error"]]
  /\ UNCHANGED <<mu, images, sendIndex, nSent, nEncoded, worker,
                 nTotalEncodedSize, main, passed, returned>>

\* decode.go 276-277, encode.go 67-69: cinfo.err = C.malloc(sizeof struct)
mallocCinfoErr(p) ==
  LET c == call[p]
      e == malloc(heap)
      h1 == Store(Allocate(heap, e), e, [error_exit |-> "", msg_code |-> ""])
  IN
  /\ c.pc = "malloc cinfo.err"
  /\ heap' = Store(h1, c.ptrs.cinfo, [err |-> e])
  /\ call' = [call EXCEPT ![p] = [c EXCEPT !.ptrs.err = e,
                                           !.pc = "jpeg_std_error"]]
  /\ UNCHANGED <<mu, images, sendIndex, nSent, nEncoded, worker,
                 nTotalEncodedSize, main, passed, returned>>

\* decode.go 279-280, encode.go 71-74: jpeg_std_error(cinfo.err), then
\* cinfo.err.error_exit = error_panic; Encode also gets its mem_helper
installErrorPanic(p) ==
  LET c == call[p]
      e == ErrOf(heap, c)
      h1 == [heap EXCEPT ![e].data.error_exit = "error_panic"]
      m == malloc(h1)
  IN
  /\ c.pc = "jpeg_std_error"
  /\ heap' = IF c.op = "Encode" THEN Allocate(h1, m) ELSE h1
  /\ call' = [call EXCEPT ![p] =
                [c EXCEPT !.ptrs.memHelper = IF c.op = "Encode" THEN m ELSE 0,
                          !.y = 0, !.pc = "library"]]
  /\ UNCHANGED <<mu, images, sendIndex, nSent, nEncoded, worker,
                 nTotalEncodedSize, main, passed, returned>>

\* the library's routines up to the start of the row loop (y = 0) and from
\* there to finish (y = 1), each given cinfo: they return, or store a
\* msg_code in cinfo->err and call cinfo->err->error_exit
libraryRoutines(p) ==
  LET c == call[p]
      e == ErrOf(heap, c)
  IN
  /\ c.pc = "library"
  /\ \/ /\ call' = [call EXCEPT ![p] =
                      [c EXCEPT !.pc = IF c.y = 0 THEN "malloc bufBytes"
                                       ELSE "return"]]
        /\ UNCHANGED heap
     \/ \E code \in MsgCodes :
          /\ heap' = [heap EXCEPT ![e].data.msg_code = code]
          /\ call' = [call EXCEPT ![p] = [c EXCEPT !.raised = code,
                                                   !.pc = "error_exit"]]
  /\ UNCHANGED <<mu, images, sendIndex, nSent, nEncoded, worker,
                 nTotalEncodedSize, main, passed, returned>>

\* decode.go 164, 203, 230; encode.go 105: the scratch row
mallocBufBytes(p) ==
  LET c == call[p]
      a == malloc(heap)
  IN
  /\ c.pc = "malloc bufBytes"
  /\ heap' = Allocate(heap, a)
  /\ call' = [call EXCEPT ![p] = [c EXCEPT !.ptrs.bufBytes = a, !.y = 1,
                                           !.pc = "library"]]
  /\ UNCHANGED <<mu, images, sendIndex, nSent, nEncoded, worker,
                 nTotalEncodedSize, main, passed, returned>>

\* the library calls (*cinfo->err->error_exit)(cinfo); jpeg_common.c 4-6:
\* error_panic formats the message of cinfo->err into the buffer on its
\* own stack.  Any other error_exit ends the process.
errorExit(p) ==
  LET c == call[p]
      e == ErrOf(heap, c)
  IN
  /\ c.pc = "error_exit"
  /\ call' = [call EXCEPT ![p] =
                IF heap[e].data.error_exit = "error_panic"
                THEN [c EXCEPT !.buffer = heap[e].data.msg_code,
                               !.pc = "goPanic"]
                ELSE [c EXCEPT !.pc = "exit"]]
  /\ UNCHANGED harnessVars

\* jpeg_common.c 7, part_001 goPanic, then the deferred calls on the
\* panicking goroutine: the context and its error manager are freed, the
\* recover closure stores the error
panicUnwind(p) ==
  LET c == call[p]
      recovered == recoverHandler(error_panic(c, c.buffer))
  IN
  /\ c.pc = "goPanic"
  /\ heap' = Free(Free(heap, c.ptrs.err), c.ptrs.cinfo)
  /\ call' = [call EXCEPT ![p] =
                [recovered EXCEPT !.ptrs.err = 0, !.ptrs.cinfo = 0,
                                  !.pc = "done"]]
  /\ UNCHANGED <<mu, images, sendIndex, nSent, nEncoded, worker,
                 nTotalEncodedSize, main, passed, returned>>

\* decode.go 173, 212, 257 and encode.go 157-160, then the deferred frees:
\* every block of the call is freed, the call returns a nil error
returnFreed(p) ==
  LET c == call[p]
      h1 == Free(heap, c.ptrs.bufBytes)
      h2 == IF c.op = "Encode" THEN Free(h1, c.ptrs.memHelper) ELSE h1
  IN
  /\ c.pc = "return"
  /\ heap' = Free(Free(h2, c.ptrs.err), c.ptrs.cinfo)
  /\ call' = [call EXCEPT ![p] =
                [c EXCEPT !.ptrs = IdleCall.ptrs, !.err = NilErr,
                          !.pc = "done"]]
  /\ UNCHANGED <<mu, images, sendIndex, nSent, nEncoded, worker,
                 nTotalEncodedSize, main, passed, returned>>

\* two calls, each DecodeData or Encode, entered at the same time
InitConcurrent ==
  /\ \E ops \in [Callers -> {"DecodeData", "Encode"}] :
       call = [p \in Callers |->
                 [IdleCall EXCEPT !.op = ops[p], !.pc = "malloc cinfo"]]
  /\ HarnessIdle

NextConcurrent ==
  \/ \E p \in DOMAIN call : mallocCinfo(p)
  \/ \E p \in DOMAIN call : mallocCinfoErr(p)
  \/ \E p \in DOMAIN call : installErrorPanic(p)
  \/ \E p \in DOMAIN call : libraryRoutines(p)
  \/ \E p \in DOMAIN call : mallocBufBytes(p)
  \/ \E p \in DOMAIN call : errorExit(p)
  \/ \E p \in DOMAIN call : panicUnwind(p)
  \/ \E p \in DOMAIN call : returnFreed(p)

SpecConcurrent == InitConcurrent /\ [][NextConcurrent]_vars

(* ------------------------- reading the log ---------------------------- *)

\* the places of the log where routine `name` was called with argument `arg`
Positions(c, name, arg) ==
  {i \in 1..Len(c.log) : c.log[i][1] = name /\ c.log[i][2] = arg}

Called(c, name) == Positions(c, name, "") # {}

\* the messages the fatal-error callback was invoked with
Raised(c) == {c.cbMsgs[i] : i \in 1..Len(c.cbMsgs)}

\* routine `name` was called and returned
Completed(c, name) == Called(c, name) /\ name \notin Raised(c)

DecodeOps == {"DecodeData", "Decode"}
DecompressOps == {"DecodeData", "Decode", "GetJpegInfo"}

(* ------------------------------ claims -------------------------------- *)

\* C1: in DecodeData and GetJpegInfo the decompression context, the context
\* struct and the error-manager struct are never destroyed or freed twice,
\* and when the call returns after the context was created (whatever the
\* exit path) the context was destroyed exactly once and each struct freed
\* exactly once, the destroy before both frees.
C1_DecompressTeardown ==
  \A p \in DOMAIN call :
    LET c == call[p]
        destroys == Positions(c, "jpeg_destroy_decompress", "")
        freesCinfo == Positions(c, "free", "cinfo")
        freesErr == Positions(c, "free", "cinfo.err")
    IN  c.op \in DecompressOps =>
          /\ Cardinality(destroys) <= 1
          /\ Cardinality(freesCinfo) <= 1
          /\ Cardinality(freesErr) <= 1
          /\ (c.pc = "done" /\ Completed(c, "jpeg_CreateDecompress")) =>
               /\ Cardinality(destroys) = 1
               /\ Cardinality(freesCinfo) = 1
               /\ Cardinality(freesErr) = 1
               /\ \A i \in destroys : \A j \in freesCinfo \cup freesErr : i < j

\* a DecodeData call that returned after a fatal error in the row loop
C1_Witness ==
  \E p \in DOMAIN call :
    /\ call[p].op = "DecodeData"
    /\ call[p].pc = "done"
    /\ "jpeg_read_scanlines" \in Raised(call[p])
    /\ Completed(call[p], "jpeg_CreateDecompress")

\* the native resources of a call that are allocated and not released
LiveResources(c) ==
  {r \in {"cinfo", "cinfo.err", "memHelper", "memHelper.buf", "bufBytes"} :
     (Positions(c, "malloc", r) \cup Positions(c, "calloc", r)) # {}
     /\ Positions(c, "free", r) = {}}
  \cup {r \in {"compress context"} :
          Completed(c, "jpeg_CreateCompress")
          /\ ~Called(c, "jpeg_destroy_compress")}
  \cup {r \in {"decompress context"} :
          Completed(c, "jpeg_CreateDecompress")
          /\ ~Called(c, "jpeg_destroy_decompress")}

\* C2: when Encode returns, on every exit path, no native resource the call
\* allocated (compression context, context struct, error manager,
\* memory-destination helper, output buffer, scratch row) is still allocated.
C2_EncodeTeardown ==
  \A p \in DOMAIN call :
    (call[p].op = "Encode" /\ call[p].pc = "done") => LiveResources(call[p]) = {}

C4_ImageOrError ==
  \A p \in DOMAIN call :
    LET c == call[p] IN
      (c.op \in DecodeOps /\ c.pc = "done") =>
        \/ /\ c.img # NilImg
           /\ c.err = NilErr
           /\ c.img.dx = c.width /\ c.img.dy = c.height
           /\ c.img.rows = 0..(c.img.dy - 1)
        \/ /\ c.img = NilImg
           /\ c.err # NilErr

\* a Decode call that returned an image
C4_Witness ==
  \E p \in DOMAIN call :
    /\ call[p].op = "Decode" /\ call[p].pc = "done"
    /\ call[p].img # NilImg /\ call[p].img.dy = MaxHeight

\* C5: Encode writes to w at most once, only after jpeg_finish_compress has
\* returned, and an Encode that returns a non-nil error has written nothing.
C5_NoWriteOnError ==
  \A p \in DOMAIN call :
    LET c == call[p] IN
      c.op = "Encode" =>
        /\ Len(c.wrote) <= 1
        /\ Cardinality(Positions(c, "w.Write", "")) = Len(c.wrote)
        /\ c.wrote # <<>> =>
             /\ Completed(c, "jpeg_finish_compress")
             /\ \A i \in Positions(c, "jpeg_finish_compress", "") :
                  \A j \in Positions(c, "w.Write", "") : i < j
        /\ (c.pc = "done" /\ c.err # NilErr) => c.wrote = <<>>

\* an Encode that returned the error of a fatal error in jpeg_finish_compress
C5_Witness ==
  \E p \in DOMAIN call :
    /\ call[p].op = "Encode" /\ call[p].pc = "done"
    /\ call[p].err.kind = "jpeg"
    /\ "jpeg_finish_compress" \in Raised(call[p])

\* C6: Encode of an image whose bounds have width <= 0 or height <= 0 makes
\* no native allocation and no native call, writes nothing to w, and returns
\* the invalid-size error.
C6_InvalidSize ==
  \A p \in DOMAIN call :
    LET c == call[p] IN
      (c.op = "Encode" /\ (c.dx <= 0 \/ c.dy <= 0)) =>
        /\ c.log = <<>>
        /\ c.wrote = <<>>
        /\ c.pc \in {"unwind", "done"}
        /\ c.err.kind = "size"

\* an Encode of a zero-width image that returned
C6_Witness ==
  \E p \in DOMAIN call :
    /\ call[p].op = "Encode" /\ call[p].pc = "done"
    /\ call[p].dx = 0 /\ call[p].dy > 0

\* the strategy the component count stands for
StrategyOf(n) ==
  CASE n = 1 -> [kind |-> "Gray", via |-> "decodeToGray"]
    [] n = 3 -> [kind |-> "RGBA", via |-> "decodeToRgba"]
    [] n = 4 -> [kind |-> "RGBA", via |-> "decodeCmykToRgba"]
    [] OTHER -> [kind |-> "nil", via |-> ""]

\* C7: once jpeg_start_decompress has returned, the strategy is the one the
\* component count stands for: 1 a Gray image by direct copy, 3 an RGBA image
\* by direct copy after JCS_EXT_RGBA was set before jpeg_start_decompress,
\* 4 an RGBA image through decodeCmykToRgba, and every other count returns
\* the unsupported-component-count error with a nil image, without a crash.
C7_StrategyByComponents ==
  \A p \in DOMAIN call :
    LET c == call[p] IN
      (c.op \in DecodeOps /\ Completed(c, "jpeg_start_decompress")) =>
        /\ c.limg.kind = StrategyOf(c.nComp).kind
        /\ c.limg.via = StrategyOf(c.nComp).via
        /\ (c.nComp = 3) <=> Positions(c, "jpeg_start_decompress", "JCS_EXT_RGBA") # {}
        /\ c.pc # "crashed"
        /\ (c.pc = "done" /\ c.nComp \notin {1, 3, 4}) =>
             /\ c.img = NilImg
             /\ c.err.kind = "components"

\* C10: the quality handed to jpeg_set_quality lies in 1..100: it is the
\* caller's Options.Quality, or 75 when the quality is unset.
C10_QualityInRange ==
  \A p \in DOMAIN call :
    LET c == call[p] IN
      \A i \in 1..Len(c.log) :
        c.log[i][1] = "jpeg_set_quality" =>
          /\ c.log[i][4] \in 1..100
          /\ c.log[i][4] = (IF c.o.set THEN c.o.Quality ELSE DefaultQuality)

\* byte i (1..4) of pixel x (0-based) of a scanline
RawByte(c, x, i) == c.buf[4 * x + i]
\* byte i (1..4) of pixel x of row y of img.Pix
PixByte(c, x, i) == c.pix[c.y * c.stride + 4 * x + i]

\* C8: for every pixel of a 4-component scanline with raw bytes (C,M,Y,K)
\* read in that order, decodeCmykToRgba stores (C*K/255, M*K/255, Y*K/255,
\* 255), the division truncating; each stored channel lies in 0..255; bytes
\* of other rows are left alone; (0,0,0,255) and (255,255,255,0) both give
\* (0,0,0,255).
C8_CmykToRgba ==
  \A p \in DOMAIN call :
    LET c == call[p] IN
      c.op = "decodeCmykToRgba" =>
        /\ \A x \in 0..(c.x - 1) :
             LET k == RawByte(c, x, 4) IN
               /\ PixByte(c, x, 1) = (RawByte(c, x, 1) * k) \div 255
               /\ PixByte(c, x, 2) = (RawByte(c, x, 2) * k) \div 255
               /\ PixByte(c, x, 3) = (RawByte(c, x, 3) * k) \div 255
               /\ PixByte(c, x, 4) = 255
               /\ \A i \in 1..4 : PixByte(c, x, i) \in 0..255
               /\ (<<RawByte(c, x, 1), RawByte(c, x, 2), RawByte(c, x, 3), k>>
                     \in {<<0, 0, 0, 255>>, <<255, 255, 255, 0>>})
                  => <<PixByte(c, x, 1), PixByte(c, x, 2), PixByte(c, x, 3),
                       PixByte(c, x, 4)>> = <<0, 0, 0, 255>>
        /\ \A i \in 1..Len(c.pix) :
             (i <= c.y * c.stride \/ i > c.y * c.stride + 4 * c.x) => c.pix[i] = 0
        /\ c.srcOff = 4 * c.x
        /\ c.off = c.y * c.stride + 4 * c.x

\* a converted scanline whose first pixel is (200, 0, 0, 200): 200*200
\* exceeds 16 bits of product and gives 156
C8_Witness ==
  \E p \in DOMAIN call :
    LET c == call[p] IN
      /\ c.op = "decodeCmykToRgba" /\ c.x = c.width
      /\ c.buf = <<200, 0, 0, 200>>
      /\ c.pix = <<156, 0, 0, 255>>

\* the native calls of a call, in order, with their arguments
NativeCalls(c) == c.log

\* log a is an initial part of log b
IsPrefix(a, b) == Len(a) <= Len(b) /\ \A i \in 1..Len(a) : a[i] = b[i]

\* C9: Encode with nil options hands quality 75 to jpeg_set_quality, and on
\* the same image makes the same native calls with the same arguments as
\* Encode with Options{Quality: 75}: as long as the library raises no error
\* in either call one call's log is an initial part of the other's, and when
\* both have returned the logs and the bytes handed to w are the same.
C9_DefaultQuality ==
  LET a == call["nil"]
      b == call["explicit"]
  IN  /\ \A i \in 1..Len(a.log) :
           a.log[i][1] = "jpeg_set_quality" => a.log[i][4] = DefaultQuality
      /\ (a.cbMsgs = <<>> /\ b.cbMsgs = <<>>) =>
           /\ IsPrefix(NativeCalls(a), NativeCalls(b))
              \/ IsPrefix(NativeCalls(b), NativeCalls(a))
           /\ (a.pc = "done" /\ b.pc = "done") =>
                /\ NativeCalls(a) = NativeCalls(b)
                /\ a.err = NilErr /\ b.err = NilErr
                /\ Len(a.wrote) = 1 /\ Len(b.wrote) = 1
                /\ a.wrote[1].data = b.wrote[1].data

\* both calls have returned without error, on an image of the largest size
C9_Witness ==
  /\ DOMAIN call = {"nil", "explicit"}
  /\ \A p \in DOMAIN call :
       /\ call[p].pc = "done" /\ call[p].err = NilErr
       /\ call[p].dy = MaxHeight
       /\ Len(call[p].wrote) = 1

\* C11: DecodeData and GetJpegInfo called with an empty byte buffer return
\* the invalid-input error and a nil result, and the empty input is detected
\* before the decompression context is opened and before the native header
\* reader is called: such a call makes no jpeg_CreateDecompress and no
\* jpeg_read_header.
C11_EmptyInputValidated ==
  \A p \in DOMAIN call :
    LET c == call[p] IN
      (c.op \in {"DecodeData", "GetJpegInfo"} /\ c.dLen = 0) =>
        /\ ~Called(c, "jpeg_CreateDecompress")
        /\ ~Called(c, "jpeg_read_header")
        /\ c.pc = "done" =>
             /\ c.err.kind = "invalid input"
             /\ c.img = NilImg /\ c.info = NilInfo

\* the routines GetJpegInfo may call, in the order it may call them
HeaderOnlyCalls ==
  <<"malloc", "jpeg_std_error", "jpeg_CreateDecompress", "jpeg_mem_src",
    "jpeg_read_header", "jpeg_destroy_decompress", "free">>

\* the place of routine `name` in HeaderOnlyCalls, 0 when it is not one of them
HeaderOnlyRank(name) ==
  IF \E i \in 1..Len(HeaderOnlyCalls) : HeaderOnlyCalls[i] = name
  THEN CHOOSE i \in 1..Len(HeaderOnlyCalls) : HeaderOnlyCalls[i] = name
  ELSE 0

\* C14: GetJpegInfo performs only: create context, wire the memory source,
\* read header, destroy context (with the allocation and release of the two
\* structs around them), in that order; on no path does it start
\* decompression or read a scanline; it returns the header's component
\* count, colorspace, width and height only when the header status is
\* JPEG_HEADER_OK, otherwise a nil info with an error.
C14_HeaderOnly ==
  \A p \in DOMAIN call :
    LET c == call[p] IN
      c.op = "GetJpegInfo" =>
        /\ \A i \in 1..Len(c.log) : HeaderOnlyRank(c.log[i][1]) > 0
        /\ \A i, j \in 1..Len(c.log) :
             i < j => HeaderOnlyRank(c.log[i][1]) <= HeaderOnlyRank(c.log[j][1])
        /\ ~Called(c, "jpeg_start_decompress")
        /\ ~Called(c, "jpeg_read_scanlines")
        /\ c.pc = "done" =>
             \/ /\ c.res = "JPEG_HEADER_OK" /\ c.err = NilErr
                /\ c.info = [set |-> TRUE, Components |-> c.nComp,
                             ColorSpace |-> c.jpegColorSpace,
                             Width |-> c.imageWidth, Height |-> c.imageHeight]
             \/ /\ c.info = NilInfo /\ c.err # NilErr

\* the places of the log where a scanline was read or written
ScanlineCalls(c) ==
  Positions(c, "jpeg_read_scanlines", "") \cup Positions(c, "jpeg_write_scanlines", "")

\* C15: the scratch row buffer a Decode or Encode call allocates is never
\* freed twice, is never freed while a later scanline call still uses it,
\* and has been freed exactly once when the call returns, on every exit path,
\* the one where a fatal native error is raised while reading or writing a
\* scanline included.
C15_ScratchRowFreed ==
  \A p \in DOMAIN call :
    LET c == call[p]
        allocs == Positions(c, "malloc", "bufBytes")
        frees == Positions(c, "free", "bufBytes")
    IN  /\ Cardinality(frees) <= 1
        /\ \A i \in frees : \A j \in ScanlineCalls(c) : j < i
        /\ (c.pc = "done" /\ allocs # {}) => Cardinality(frees) = 1

\* the calls of routine `name` a call made, in the order it made them
CallsOf(c, name) == SelectSeq(c.log, LAMBDA e : e[1] = name)

\* every call of the sequence transfers row i - 1 as its i-th and n bytes
RowsInOrder(calls, n) ==
  \A i \in 1..Len(calls) : calls[i][3] = i - 1 /\ calls[i][4] = n

\* C16: a successful Decode makes exactly output_height jpeg_read_scanlines
\* calls and a successful Encode exactly dy jpeg_write_scanlines calls, one
\* row per call, rows 0..height-1 in increasing order, each row of exactly
\* width * bytesPerPixel bytes (1 for gray, 4 for decoded RGBA and CMYK, 3
\* for encoded RGB); no row is skipped, repeated or partial.
C16_RowCounts ==
  \A p \in DOMAIN call :
    LET c == call[p]
        reads == CallsOf(c, "jpeg_read_scanlines")
        writes == CallsOf(c, "jpeg_write_scanlines")
    IN  (c.pc = "done" /\ c.err = NilErr) =>
          /\ c.op \in DecodeOps =>
               /\ Len(reads) = c.height
               /\ RowsInOrder(reads, c.width * (IF c.nComp = 1 THEN 1 ELSE 4))
               /\ c.img.rows = 0..(c.height - 1)
          /\ c.op = "Encode" =>
               /\ Len(writes) = c.dy
               /\ RowsInOrder(writes, c.dx * (IF c.kind = "Gray" THEN 1 ELSE 3))

\* a decode of a 4-component image of the largest size that returned its image
C16_Witness ==
  \E p \in DOMAIN call :
    /\ call[p].op \in DecodeOps /\ call[p].pc = "done" /\ call[p].err = NilErr
    /\ call[p].nComp = 4
    /\ call[p].width = MaxWidth /\ call[p].height = MaxHeight
    /\ Len(CallsOf(call[p], "jpeg_read_scanlines")) = MaxHeight

\* every place of set a comes before every place of set b
Before(a, b) == \A i \in a : \A j \in b : i < j

\* C17 as claimed: in a successful Encode the steps occur in the order start
\* compression, all scanline writes, finish compression, drain of the
\* destination buffer into w, destroy of the compression context: the drain
\* happens before the context is destroyed.
C17_DrainBeforeDestroy ==
  \A p \in DOMAIN call :
    LET c == call[p]
        start == Positions(c, "jpeg_start_compress", "")
        writes == Positions(c, "jpeg_write_scanlines", "")
        finish == Positions(c, "jpeg_finish_compress", "")
        drain == Positions(c, "w.Write", "")
        destroy == Positions(c, "jpeg_destroy_compress", "")
    IN  (c.op = "Encode" /\ c.pc = "done" /\ c.err = NilErr) =>
          /\ Before(start, writes) /\ Before(writes, finish)
          /\ Before(finish, drain) /\ Before(drain, destroy)
          /\ \A s \in {start, finish, drain, destroy} : Cardinality(s) = 1

\* C17 amended: in a successful Encode the steps occur in the order start
\* compression, all scanline writes, finish compression, destroy of the
\* compression context, drain of the destination buffer into w, free of the
\* destination buffer: the drain happens after the context is destroyed and
\* before the buffer, which the caller owns, is freed.
C17_EncodeOrder ==
  \A p \in DOMAIN call :
    LET c == call[p]
        start == Positions(c, "jpeg_start_compress", "")
        writes == Positions(c, "jpeg_write_scanlines", "")
        finish == Positions(c, "jpeg_finish_compress", "")
        drain == Positions(c, "w.Write", "")
        destroy == Positions(c, "jpeg_destroy_compress", "")
        freeBuf == Positions(c, "free", "memHelper.buf")
    IN  (c.op = "Encode" /\ c.pc = "done" /\ c.err = NilErr) =>
          /\ Before(start, writes) /\ Before(writes, finish)
          /\ Before(finish, destroy) /\ Before(destroy, drain)
          /\ Before(drain, freeBuf)
          /\ \A s \in {start, finish, drain, destroy, freeBuf} : Cardinality(s) = 1
          /\ Cardinality(writes) = c.dy

\* an Encode of an image of the largest height that returned nil
C17_Witness ==
  \E p \in DOMAIN call :
    /\ call[p].op = "Encode" /\ call[p].pc = "done" /\ call[p].err = NilErr
    /\ call[p].dy = MaxHeight
    /\ Positions(call[p], "w.Write", "") # {}

\* C18: in DecodeData jpeg_finish_decompress is called only after
\* jpeg_start_decompress has returned and only after exactly output_height
\* scanlines have been read; it is never called on a context of which fewer
\* scanlines were read (unsupported component count, or a fatal error in the
\* middle of the row loop).
C18_FinishAfterAllRows ==
  \A p \in DOMAIN call :
    LET c == call[p] IN
      c.op \in DecodeOps =>
        \A i \in Positions(c, "jpeg_finish_decompress", "") :
          /\ Completed(c, "jpeg_start_decompress")
          /\ Before(Positions(c, "jpeg_start_decompress", c.outColorSpace), {i})
          /\ c.log[i][4] = c.height
          /\ "jpeg_read_scanlines" \notin Raised(c)
          /\ c.nComp \in {1, 3, 4}

\* C19: an Encode that returns a nil error has delivered the complete
\* compressed output to w: a failing or short write to w is reported to the
\* caller as a non-nil error.
C19_WriteFailureReported ==
  \A p \in DOMAIN call :
    LET c == call[p] IN
      (c.op = "Encode" /\ c.pc = "done" /\ c.err = NilErr) =>
        /\ Len(c.wrote) = 1
        /\ c.wrote[1].complete
        /\ c.wrote[1].data = compressedBytes(c)

\* the six rectangles reencodeData takes of a w by h image: the four
\* quadrants, the centred half-size crop, the 1-pixel inset
TestRects(w, h) ==
  <<[minX |-> 0, minY |-> 0, maxX |-> w \div 2, maxY |-> h \div 2],
    [minX |-> w \div 2, minY |-> 0, maxX |-> w, maxY |-> h \div 2],
    [minX |-> 0, minY |-> h \div 2, maxX |-> w \div 2, maxY |-> h],
    [minX |-> w \div 2, minY |-> h \div 2, maxX |-> w, maxY |-> h],
    [minX |-> w \div 4, minY |-> h \div 4,
     maxX |-> w \div 4 + w \div 2, maxY |-> h \div 4 + h \div 2],
    [minX |-> 1, minY |-> 1, maxX |-> w - 1, maxY |-> h - 1]>>

\* the pixels (x, y) of the decoded image, in its own coordinates, of which
\* the call has read a byte
PixelsRead(c) ==
  {<<((c.viewOff + rd[2]) % c.stride) \div PixBytes(c.kind),
     (c.viewOff + rd[2]) \div c.stride>> : rd \in c.reads}

\* C13: for every non-empty sub-rectangle r of a decoded Gray or RGBA image,
\* Encode of the sub-image view writes r.Dy() scanlines of r.Dx() pixels
\* each, rows in order; every byte it reads lies inside the view's pixel
\* slice, for output row y in the r.Dx() pixels that start at offset
\* y*Stride of the view's Pix, which are row r.Min.Y + y, columns r.Min.X to
\* r.Max.X - 1 of the decoded image; no index goes out of range.
C13_SubImageInBounds ==
  \A p \in DOMAIN call :
    LET c == call[p]
        bpp == PixBytes(c.kind)
        writes == CallsOf(c, "jpeg_write_scanlines")
    IN  (c.op = "Encode" /\ c.parentW > 0) =>
          /\ c.panic.kind # "runtime"
          /\ \A rd \in c.reads :
               LET y == rd[1]
                   idx == rd[2]
               IN  /\ idx \in 0..(c.pixLen - 1)
                   /\ idx \in (y * c.stride)..(y * c.stride + c.dx * bpp - 1)
                   /\ (c.viewOff + idx) \div c.stride = c.rect.minY + y
                   /\ ((c.viewOff + idx) % c.stride) \div bpp
                        \in c.rect.minX..(c.rect.maxX - 1)
          /\ Len(writes) <= c.rect.maxY - c.rect.minY
          /\ RowsInOrder(writes, (c.rect.maxX - c.rect.minX)
                                   * (IF c.kind = "Gray" THEN 1 ELSE 3))
          /\ (c.pc = "row loop" /\ c.y >= c.dy) =>
               /\ Len(writes) = c.rect.maxY - c.rect.minY
               /\ PixelsRead(c) = (c.rect.minX..(c.rect.maxX - 1))
                                    \X (c.rect.minY..(c.rect.maxY - 1))

\* the row loop has ended on the centred half-size crop of an RGBA image of
\* the largest size
C13_Witness ==
  \E p \in DOMAIN call :
    LET c == call[p] IN
      /\ c.op = "Encode" /\ c.kind = "RGBA"
      /\ c.parentW = MaxParentWidth /\ c.parentH = MaxParentHeight
      /\ c.rect = TestRects(c.parentW, c.parentH)[5]
      /\ c.pc = "row loop" /\ c.y = c.dy /\ c.cbMsgs = <<>>
      /\ Cardinality(c.reads) = 3 * c.dx * c.dy

\* the places of a worker's loop after Decode has returned and been validated
AfterDecode ==
  {"Encode", "fill", "jpeg_write_scanlines", "mu.Lock", "check", "publish",
   "mu.Unlock", "compare"}

\* the places of a worker's loop after Encode has returned
AfterEncode == {"mu.Lock", "check", "publish", "mu.Unlock", "compare"}

\* C12: with two or more workers running decode-then-encode iterations
\* concurrently over the shared corpus, in every interleaving no worker
\* reaches a consistency violation: every decode of an item equals the image
\* decoded for it during the single-threaded setup, and every encode of an
\* item equals the first encoded output recorded for the item.
C12_NoConsistencyViolation ==
  \A w \in DOMAIN worker :
    LET me == worker[w] IN
      /\ me.pc # "panicked"
      /\ me.failure = ""
      /\ me.pc \in AfterDecode => me.img = images[me.item].img
      /\ me.pc \in AfterEncode =>
           /\ me.encoded = EncodedBytes(images[me.item].img)
           /\ images[me.item].published # <<>> =>
                me.encoded = images[me.item].published[1].data

\* both workers are copying a row of different images, one of them an image
\* whose baseline was published in an earlier iteration
C12_Witness ==
  /\ DOMAIN worker = Workers
  /\ nEncoded >= 1
  /\ \E w1, w2 \in Workers :
       /\ worker[w1].pc = "copy" /\ worker[w2].pc = "copy"
       /\ worker[w1].item # worker[w2].item
       /\ worker[w1].y = HarnessRows - 1
       /\ images[worker[w1].item].published # <<>>

\* C20: for every image of the corpus and every interleaving of the workers
\* (two workers handling the same image at the same time included), the
\* encoded baseline is written at most once, by a worker that holds the
\* mutex; its value never changes afterwards; and every comparison of a
\* worker's encoded bytes with the baseline reads a baseline that has been
\* published.
C20_BaselinePublishedOnce ==
  /\ \A i \in DOMAIN images :
       /\ Len(images[i].published) <= 1
       /\ \A k \in 1..Len(images[i].published) :
            images[i].published[k].holder = images[i].published[k].by
       /\ images[i].encodedData =
            (IF images[i].published = <<>> THEN NilBytes
             ELSE images[i].published[1].data)
       /\ images[i].published # <<>> => images[i].encodedData # NilBytes
  /\ \A w \in DOMAIN worker :
       /\ worker[w].pc \in {"check", "publish", "mu.Unlock"} => mu = w
       /\ worker[w].pc = "compare" =>
            images[worker[w].item].encodedData # NilBytes
       /\ ~worker[w].sawNil

\* two workers have encoded the same image at the same time: one published
\* the baseline and is about to compare, the other holds the mutex and is
\* about to find the baseline published
C20_Witness ==
  /\ DOMAIN worker = Workers
  /\ \E w1, w2 \in Workers :
       /\ w1 # w2
       /\ worker[w1].item = worker[w2].item
       /\ worker[w1].pc = "compare" /\ worker[w2].pc = "check"
       /\ images[worker[w1].item].published # <<>>
       /\ images[worker[w1].item].published[1].by = w1

\* C23: Encode configures the compression context from the source's concrete
\* type before jpeg_set_defaults: a *image.Gray source gives input_components
\* 1, JCS_GRAYSCALE and a row of dx bytes; every other source, *image.RGBA
\* included, gives input_components 3, JCS_RGB and a row of 3*dx bytes; the
\* scratch row buffer is allocated with exactly that row size and every
\* scanline written has it.
C23_ConfigByType ==
  \A p \in DOMAIN call :
    LET c == call[p]
        gray == c.kind = "Gray"
        components == IF gray THEN 1 ELSE 3
        colorSpace == IF gray THEN "JCS_GRAYSCALE" ELSE "JCS_RGB"
        row == IF gray THEN c.dx ELSE 3 * c.dx
    IN  c.op = "Encode" =>
          /\ \A i \in 1..Len(c.log) :
               /\ c.log[i][1] = "jpeg_set_defaults" =>
                    c.log[i][2] = colorSpace /\ c.log[i][4] = components
               /\ (c.log[i][1] = "malloc" /\ c.log[i][2] = "bufBytes") =>
                    c.log[i][4] = row
               /\ c.log[i][1] = "jpeg_write_scanlines" => c.log[i][4] = row
          /\ Called(c, "jpeg_set_defaults") =>
               /\ c.inputComponents = components
               /\ c.inColorSpace = colorSpace
               /\ c.nBytes = row

\* an Encode of an *image.RGBA of the largest width that has allocated its
\* scratch row and written a scanline
C23_Witness ==
  \E p \in DOMAIN call :
    LET c == call[p] IN
      /\ c.op = "Encode" /\ c.kind = "RGBA" /\ c.dx = MaxWidth
      /\ Positions(c, "malloc", "bufBytes") # {}
      /\ Positions(c, "jpeg_write_scanlines", "") # {}

\* C24: for an *image.RGBA source, every row y and every column x in
\* 0..dx-1, the native row handed to jpeg_write_scanlines has bytes 3x, 3x+1,
\* 3x+2 equal to the source bytes y*Stride+4x, y*Stride+4x+1, y*Stride+4x+2;
\* the alpha byte at y*Stride+4x+3 is never read and all indexes stay inside
\* the 3*dx-byte scratch row.
C24_RgbaRowPacking ==
  \A p \in DOMAIN call :
    LET c == call[p] IN
      (c.op = "Encode" /\ c.kind = "RGBA" /\ c.parentW > 0) =>
        /\ c.panic.kind # "runtime"
        /\ Len(c.buf) = 3 * c.dx
        /\ c.dstOff \in 0..(3 * c.dx)
        /\ c.pc = "rgba pixels" => c.dstOff = 3 * c.x /\ c.srcOff = 4 * c.x
        /\ \A y \in 0..(Len(c.handed) - 1) :
             /\ Len(c.handed[y + 1]) = 3 * c.dx
             /\ \A x \in 0..(c.dx - 1) : \A k \in 0..2 :
                  c.handed[y + 1][3 * x + k + 1]
                    = SourceByte(y * c.stride + 4 * x + k)
        /\ \A rd \in c.reads : (rd[2] - rd[1] * c.stride) % 4 # 3

\* every row of a view two pixels wide inside a wider RGBA image was handed
\* to the library
C24_Witness ==
  \E p \in DOMAIN call :
    LET c == call[p] IN
      /\ c.op = "Encode" /\ c.kind = "RGBA"
      /\ c.parentW = MaxParentWidth /\ c.dx = 2 /\ c.dy = MaxParentHeight
      /\ c.rect.minX = 1
      /\ Len(c.handed) = c.dy /\ c.cbMsgs = <<>>

\* C25: for a source image that is neither *image.Gray nor *image.RGBA and
\* whose bounds rectangle has any origin (Min.X, Min.Y), the pixel Encode
\* packs at output row y, column x is the source pixel at
\* (Min.X + x, Min.Y + y), and Encode never queries a pixel outside the
\* source's bounds rectangle.
C25_GenericPixels ==
  \A p \in DOMAIN call :
    LET c == call[p] IN
      (c.op = "Encode" /\ c.kind = "other" /\ c.parentW > 0) =>
        /\ \A y \in 0..(Len(c.handed) - 1) :
             \A x \in 0..(c.dx - 1) : \A k \in 0..2 :
               c.handed[y + 1][3 * x + k + 1]
                 = ColourByte(ParentColour(c, c.rect.minX + x, c.rect.minY + y), k)
        /\ \A q \in c.queries :
             /\ q[1] >= c.rect.minX /\ q[1] < c.rect.maxX
             /\ q[2] >= c.rect.minY /\ q[2] < c.rect.maxY

\* the workers whose iteration passed both checks and has not yet made the
\* atomic add named by pcs
Pending(pcs) == {w \in DOMAIN worker : worker[w].pc \in pcs}

RECURSIVE PendingSize(_)
PendingSize(ws) ==
  IF ws = {} THEN 0
  ELSE LET w == CHOOSE v \in ws : TRUE
       IN  EncodedLen(worker[w].encoded) + PendingSize(ws \ {w})

\* C21 as stated: under any interleaving of harness workers, at every moment
\* nEncoded equals the number of worker iterations that completed both
\* consistency checks and nTotalEncodedSize equals the sum of their encoded
\* lengths, and each value returned by the nEncoded increment is returned to
\* exactly one worker.
C21_CountersExactAlways ==
  /\ nEncoded = passed.n
  /\ nTotalEncodedSize = passed.size
  /\ \A i, j \in 1..Len(returned) : returned[i] = returned[j] => i = j

\* C21, amended: no counter update is lost.  nEncoded equals the number of
\* iterations that completed both checks less those of the workers that are
\* between the second check and the nEncoded increment; nTotalEncodedSize
\* equals the sum of the encoded lengths of the iterations that completed
\* both checks less the lengths held by workers that have not yet made the
\* size add; the values the increment returned are 1..nEncoded, each
\* returned once.
C21_NoLostUpdate ==
  /\ nEncoded + Cardinality(Pending({"atomic.AddInt64", "atomic.AddInt32"}))
       = passed.n
  /\ nTotalEncodedSize + PendingSize(Pending({"atomic.AddInt64"}))
       = passed.size
  /\ Len(returned) = nEncoded
  /\ \A i \in 1..Len(returned) : returned[i] = i
  /\ \A w \in DOMAIN worker :
       worker[w].n # 0 => worker[w].n \in 1..nEncoded

\* two workers working on different images have each made both adds, one
\* was returned nEncoded - 1 and the other nEncoded, and the size counter has
\* every length
C21_Witness ==
  /\ nEncoded >= 2
  /\ \E w1, w2 \in DOMAIN worker :
       /\ w1 # w2
       /\ worker[w1].pc = "recv" /\ worker[w2].pc = "recv"
       /\ worker[w1].n = nEncoded /\ worker[w2].n = nEncoded - 1
       /\ worker[w1].item # worker[w2].item
  /\ nTotalEncodedSize = passed.size

\* C26: for every corpus directory holding at least one .jpg or .jpeg file,
\* once the harness has started its workers it never stops on its own unless
\* a consistency violation occurs: the dispatcher sends items round-robin
\* over the loaded corpus, every item sent is received by exactly one
\* worker, and the dispatch index always stays below the number of loaded
\* items.
C26_DispatchForever ==
  /\ main = "panicked" =>
       \E w \in DOMAIN worker : worker[w].pc = "panicked"
  /\ sendIndex < Len(images)
  /\ sendIndex = nSent % Len(images)
  /\ nSent = nEncoded + Cardinality({w \in DOMAIN worker : worker[w].pc # "recv"})

\* the native blocks call c holds
Held(c) == {c.ptrs[f] : f \in DOMAIN c.ptrs} \ {0}

\* C22: a fatal native error raised in one Decode or Encode call changes
\* nothing observable by any other call running concurrently: each call
\* installs its error handler on its own context, no context, error
\* manager, scratch buffer or destination helper is reachable from two
\* calls, and each call's result is the one it has when run alone: a nil
\* error when its own routines returned, the error of its own message when
\* one of them raised.
C22_CallsIsolated ==
  \A p \in DOMAIN call :
    LET c == call[p] IN
      c.op \in {"DecodeData", "Encode"} =>
        /\ c.pc # "exit"
        /\ \A q \in DOMAIN call \ {p} : Held(c) \cap Held(call[q]) = {}
        /\ \A a \in Held(c) : heap[a].used
        /\ c.pc \in {"library", "malloc bufBytes", "error_exit", "goPanic", "return"} =>
             /\ ErrOf(heap, c) = c.ptrs.err
             /\ heap[c.ptrs.err].data.error_exit = "error_panic"
        /\ c.pc \in {"error_exit", "goPanic"} =>
             heap[c.ptrs.err].data.msg_code = c.raised
        /\ c.pc = "done" =>
             c.err = IF c.raised = "" THEN NilErr
                     ELSE [kind |-> "jpeg", msg |-> c.raised]

\* two calls in their error paths at the same moment, each with a message
\* of its own
C22_Witness ==
  \E p, q \in DOMAIN call :
    /\ call[p].pc = "goPanic" /\ call[q].pc = "error_exit"
    /\ call[p].raised # call[q].raised
    /\ call[p].buffer = call[p].raised

====
